---- MODULE Spec2Model ----
(***************************************************************************)
(* Model of the catalog store of the Yupoo scraper backend                 *)
(* (src/backend/database.py, with the tag generator of src/backend/        *)
(* vision.py and the scrape loop of src/backend/main.py that fill it).     *)
(*                                                                         *)
(* Percentages are Python floats in the source.  They are modelled as      *)
(* exact rationals <<n, d>> (d > 0, lowest terms); the thresholds of the   *)
(* code (0.01, 1e-9) are rationals too.                                    *)
(* A string is modelled as the sequence of its characters, so that what    *)
(* the code does on characters (json.dumps, INSTR, startswith, split,      *)
(* lower) is computed on them.                                             *)
(***************************************************************************)
EXTENDS Integers, Sequences, FiniteSets, TLC

VARIABLES
    products,         \* the products table: row id |-> [tags, colors]
    adj_pc,           \* adjust_color_percentages: "idle", "pass2", "tags", "returned", "raised"
    colors_to_adjust, \* its argument
    all_products,     \* its local: the rows read by list_all_products
    average_percentages, \* its local: target color |-> average
    adj_idx,          \* its local: position of the second pass in all_products
    adj_tags,         \* its local: new_tags_json_to_save of the row being written
    updated_product_count, \* its local: rows written so far
    adj_written,      \* history: row id |-> color map written by the running adjust
    adj_runs,         \* number of adjust calls started
    search_pc,        \* "idle", "done" (the search returned) or "http400" (request rejected)
    search_in,        \* its arguments and the table it read
    search_out,       \* the ids it returned, in order
    sim_pc,           \* find_similar_products_by_color: "idle", "done" (returned) or "raised"
    sim_in,           \* its arguments and the table it read
    sim_out,          \* the <<id, score>> pairs it returned, in order
    vis_pc,           \* vision: "idle", "palette" or "tags" (what was computed)
    vis_in,           \* the clustered image and the brands of the album title
    vis_out,          \* the palette, or the tags and the color map
    bgr_in,           \* _bgr_to_color_name: the (b, g, r) sample
    bgr_out,          \* the names its calls on the sample returned, in order
    mal_pc,           \* a call on a table of undecoded rows: "idle", "done" or "raised"
    mal_in,           \* the operation called, its arguments and the table it read
    mal_out,          \* what the call returned
    scrape_log,       \* scrape loop: what became of the cover of each album processed
    inserted,         \* its local: albums inserted
    failed,           \* its local: albums failed
    retag_pc,         \* retag_all_products_endpoint: "idle", "loop" or "returned"
    retag_products,   \* its local products: row id |-> existing_tags, as read at the start
    retag_idx,        \* its local: position of the loop in retag_products
    retag_log,        \* what became of the image of each product processed
    retag_updated,    \* its local updated
    retag_failed,     \* its local failed
    retag_written     \* history: row id |-> row that a re-tag committed between the read
                      \* of the running adjust and its write of that row

vars == <<products, adj_pc, colors_to_adjust, all_products, average_percentages,
          adj_idx, adj_tags, updated_product_count, adj_written, adj_runs,
          search_pc, search_in, search_out, sim_pc, sim_in, sim_out,
          vis_pc, vis_in, vis_out, bgr_in, bgr_out,
          mal_pc, mal_in, mal_out, scrape_log, inserted, failed,
          retag_pc, retag_products, retag_idx, retag_log, retag_updated, retag_failed,
          retag_written>>

adjVars == <<adj_pc, colors_to_adjust, all_products, average_percentages,
             adj_idx, adj_tags, updated_product_count, adj_written, adj_runs>>

searchVars == <<search_pc, search_in, search_out>>

simVars == <<sim_pc, sim_in, sim_out>>

visVars == <<vis_pc, vis_in, vis_out>>

bgrVars == <<bgr_in, bgr_out>>

malVars == <<mal_pc, mal_in, mal_out>>

scrapeVars == <<scrape_log, inserted, failed>>

retagVars == <<retag_pc, retag_products, retag_idx, retag_log, retag_updated, retag_failed,
               retag_written>>

extVars == <<bgrVars, malVars, scrapeVars, retagVars>>

\* the classifier has not been called
BgrIdle == bgr_in = <<>> /\ bgr_out = <<>>

\* no call on undecoded rows has been made
MalIdle == mal_pc = "idle" /\ mal_in = <<>> /\ mal_out = <<>>

\* no scrape loop and no re-tag has run
RetagIdle ==
    /\ scrape_log = <<>>
    /\ inserted = 0
    /\ failed = 0
    /\ retag_pc = "idle"
    /\ retag_products = <<>>
    /\ retag_idx = 1
    /\ retag_log = <<>>
    /\ retag_updated = 0
    /\ retag_failed = 0
    /\ retag_written = <<>>

ExtIdle == BgrIdle /\ MalIdle /\ RetagIdle

(***************************************************************************)
(* Bounds of the model.                                                    *)
(***************************************************************************)
MaxProducts == 2

MaxAdjustRuns == 1

MaxQueryLen == 2

MaxLimit == 2

MaxPixels == 4

MaxClusters == 3

\* calls of the color classifier on one sample
MaxCalls == 2

\* rows of a stored catalog that adjust is called on
MaxStored == 3

\* albums that the scrape loop processes
MaxAlbums == 2

(***************************************************************************)
(* Sequences and sets.                                                     *)
(***************************************************************************)
Range(s) == {s[i] : i \in 1..Len(s)}

Contains(s, x) == \E i \in 1..Len(s) : s[i] = x

RECURSIVE SeqOfSet(_)
SeqOfSet(S) ==
    IF S = {} THEN <<>>
    ELSE LET x == CHOOSE y \in S : TRUE IN <<x>> \o SeqOfSet(S \ {x})

\* every ordering of the elements of a finite set
Orderings(S) ==
    {s \in [1..Cardinality(S) -> S] : \A i, j \in 1..Cardinality(S) : s[i] = s[j] => i = j}

\* the list left as it is
RemoveSkipped(s, x) == s

\* list.remove(x): drops the first occurrence
RemoveFirst(s, x) ==
    LET i == CHOOSE k \in 1..Len(s) : s[k] = x /\ \A j \in 1..(k - 1) : s[j] # x
    IN  IF Contains(s, x) THEN SubSeq(s, 1, i - 1) \o SubSeq(s, i + 1, Len(s)) ELSE s

\* list(dict.fromkeys(s)): first occurrences, in order
RECURSIVE Dedupe(_)
Dedupe(s) ==
    IF s = <<>> THEN <<>>
    ELSE LET init == Dedupe(SubSeq(s, 1, Len(s) - 1))
             last == s[Len(s)]
         IN  IF Contains(init, last) THEN init ELSE Append(init, last)

(***************************************************************************)
(* Exact rationals standing for the floats of the source.                  *)
(***************************************************************************)
RECURSIVE Gcd(_, _)
Gcd(a, b) == IF b = 0 THEN a ELSE Gcd(b, a % b)

AbsInt(a) == IF a < 0 THEN -a ELSE a

Rat(n, d) ==
    LET g == Gcd(AbsInt(n), AbsInt(d))
        s == IF d < 0 THEN -1 ELSE 1
    IN  IF n = 0 THEN <<0, 1>> ELSE <<s * (n \div g), s * (d \div g)>>

RInt(n) == <<n, 1>>

RAdd(a, b) == Rat(a[1] * b[2] + b[1] * a[2], a[2] * b[2])

RSub(a, b) == Rat(a[1] * b[2] - b[1] * a[2], a[2] * b[2])

RMul(a, b) == Rat(a[1] * b[1], a[2] * b[2])

\* b # 0; a float division by zero raises ZeroDivisionError before this is used
RDiv(a, b) == Rat(a[1] * b[2], a[2] * b[1])

\* n1/d1 < n2/d2 for d1, d2 > 0, by integer parts and then the reciprocals of the
\* fractional parts: no product is formed, so 1e-9 can be compared
RECURSIVE Less(_, _, _, _)
Less(n1, d1, n2, d2) ==
    LET q1 == n1 \div d1
        q2 == n2 \div d2
        r1 == n1 % d1
        r2 == n2 % d2
    IN  IF q1 # q2 THEN q1 < q2
        ELSE IF r2 = 0 THEN FALSE
        ELSE IF r1 = 0 THEN TRUE
        ELSE Less(d2, r2, d1, r1)

RLt(a, b) == Less(a[1], a[2], b[1], b[2])

RLe(a, b) == ~RLt(b, a)

RAbs(a) == <<AbsInt(a[1]), a[2]>>

RZero == <<0, 1>>

RHundred == <<100, 1>>

\* round(x, 2) for x >= 0: count / 4096 * 100 is exact in binary, so a tie is a
\* true tie and goes to the even neighbour
Round2(x) ==
    LET f == (100 * x[1]) \div x[2]
        r == (100 * x[1]) % x[2]
    IN  Rat(IF 2 * r < x[2] THEN f
            ELSE IF 2 * r > x[2] THEN f + 1
            ELSE IF f % 2 = 0 THEN f ELSE f + 1, 100)

(***************************************************************************)
(* Color maps: functions from color names to percentages (a Python dict).  *)
(***************************************************************************)
EmptyMap == <<>>

Get(m, k) == IF k \in DOMAIN m THEN m[k] ELSE RZero

RECURSIVE SumOver(_, _)
SumOver(m, K) ==
    IF K = {} THEN RZero
    ELSE LET k == CHOOSE x \in K : TRUE IN RAdd(m[k], SumOver(m, K \ {k}))

\* sum(m.values())
SumValues(m) == SumOver(m, DOMAIN m)

Put(m, k, v) == [x \in (DOMAIN m) \cup {k} |-> IF x = k THEN v ELSE m[x]]

(***************************************************************************)
(* Strings as sequences of characters.  Eacute stands for one non-ASCII    *)
(* character (U+00E9).                                                     *)
(***************************************************************************)
Quote == "\""

Backslash == "\\"

Eacute == "U+00E9"

StartsWith(s, p) == Len(s) >= Len(p) /\ SubSeq(s, 1, Len(p)) = p

\* str.lower()
LowerChar(c) == IF c = "R" THEN "r" ELSE c

Lower(s) == [i \in 1..Len(s) |-> LowerChar(s[i])]

\* str.replace(' ', '_')
ReplaceSpace(s) == [i \in 1..Len(s) |-> IF s[i] = " " THEN "_" ELSE s[i]]

RECURSIVE Join(_, _)
Join(parts, sep) ==
    IF parts = <<>> THEN <<>>
    ELSE IF Len(parts) = 1 THEN parts[1]
    ELSE parts[1] \o sep \o Join(Tail(parts), sep)

\* json.dumps of one character of a string (ensure_ascii is on by default)
EscapeChar(c) ==
    IF c = Quote THEN <<Backslash, Quote>>
    ELSE IF c = Backslash THEN <<Backslash, Backslash>>
    ELSE IF c = Eacute THEN <<Backslash, "u", "0", "0", "e", "9">>
    ELSE <<c>>

RECURSIVE EscapeString(_)
EscapeString(s) ==
    IF s = <<>> THEN <<>> ELSE EscapeChar(Head(s)) \o EscapeString(Tail(s))

\* json.dumps of a string
JsonString(s) == <<Quote>> \o EscapeString(s) \o <<Quote>>

\* json.dumps of a list of strings: the text stored in the tags_json column
JsonDumpsList(tags) ==
    <<"[">> \o Join([i \in 1..Len(tags) |-> JsonString(tags[i])], <<",", " ">>) \o <<"]">>

\* SQLite INSTR(text, pat) > 0
Instr(text, pat) ==
    \E i \in 1..(Len(text) - Len(pat) + 1) : SubSeq(text, i, i + Len(pat) - 1) = pat

(***************************************************************************)
(* The vocabulary of the model: color names, tag prefixes, tags.           *)
(***************************************************************************)
grey == <<"g", "r", "e", "y">>

gray == <<"g", "r", "a", "y">>

white == <<"w", "h", "i", "t", "e">>

red == <<"r", "e", "d">>

blue == <<"b", "l", "u", "e">>

color_ == <<"c", "o", "l", "o", "r", "_">>

type_ == <<"t", "y", "p", "e", "_">>

company_ == <<"c", "o", "m", "p", "a", "n", "y", "_">>

ColorTag(name) == color_ \o name

IsTypeTag(t) == StartsWith(t, type_)

IsCompanyTag(t) == StartsWith(t, company_)

(***************************************************************************)
(* list.sort and sorted on <<item, key>> pairs: x is put behind every      *)
(* element that does not come after it, so pairs with equal keys keep      *)
(* their order.                                                            *)
(***************************************************************************)
RECURSIVE SortedInsert(_, _, _)
SortedInsert(sorted, x, reverse) ==
    IF sorted = <<>> THEN <<x>>
    ELSE IF (IF reverse THEN RLt(Head(sorted)[2], x[2]) ELSE RLt(x[2], Head(sorted)[2]))
    THEN <<x>> \o sorted
    ELSE <<Head(sorted)>> \o SortedInsert(Tail(sorted), x, reverse)

\* a sort that puts an element in front of the elements equal to it
RECURSIVE UnstableSort(_, _)
UnstableSort(s, reverse) ==
    IF s = <<>> THEN <<>>
    ELSE SortedInsert(UnstableSort(Tail(s), reverse), Head(s), reverse)

\* no sort at all
SortSkipped(s, reverse) == s

RECURSIVE StableSort(_, _)
StableSort(s, reverse) ==
    IF s = <<>> THEN <<>>
    ELSE SortedInsert(StableSort(SubSeq(s, 1, Len(s) - 1), reverse), s[Len(s)], reverse)

(***************************************************************************)
(* Tag generator (vision.py).  The clustered image is the sequence of      *)
(* <<color name of the centre, pixel count>> of its clusters.              *)
(***************************************************************************)
RECURSIVE total_pixels(_)
total_pixels(clusters) ==
    IF clusters = <<>> THEN 0 ELSE Head(clusters)[2] + total_pixels(Tail(clusters))

\* the palette in the order of the clusters
PercentagesUnsorted(clusters) ==
    [i \in 1..Len(clusters) |->
        <<clusters[i][1], Rat(clusters[i][2] * 100, total_pixels(clusters))>>]

\* the palette: <<color name, percentage>>, largest cluster first
get_color_percentages(clusters) ==
    LET counted == [i \in 1..Len(clusters) |-> <<clusters[i][1], RInt(clusters[i][2])>>]
        ordered == StableSort(counted, TRUE)
    IN  [i \in 1..Len(ordered) |->
            <<ordered[i][1], Rat(ordered[i][2][1] * 100, total_pixels(clusters))>>]

\* Counter(labels.flatten()): the labels in the order in which they first appear
FirstSeen(labels) == Dedupe(labels)

CountOf(labels, l) == Cardinality({i \in 1..Len(labels) : labels[i] = l})

\* zip(counts.values(), centers): the i-th count of the Counter goes with the
\* i-th centre; an image is [labels, centers], centers holding the color names
ZippedClusters(image) ==
    LET seen == FirstSeen(image.labels)
    IN  [i \in 1..Len(seen) |-> <<image.centers[i], CountOf(image.labels, seen[i])>>]

RECURSIVE PaletteTags(_)
PaletteTags(palette) ==
    IF palette = <<>> THEN <<>>
    ELSE LET init == PaletteTags(SubSeq(palette, 1, Len(palette) - 1))
             tag  == ColorTag(palette[Len(palette)][1])
         IN  IF Contains(init, tag) THEN init ELSE Append(init, tag)

\* a name gets the rounded percentage of its last occurrence
PaletteColorDataLast(palette) ==
    LET names == {palette[i][1] : i \in 1..Len(palette)}
        last(n) == CHOOSE i \in 1..Len(palette) :
                       palette[i][1] = n /\ \A j \in (i + 1)..Len(palette) : palette[j][1] # n
    IN  [n \in names |-> Round2(palette[last(n)][2])]

\* color_data: a name gets the rounded percentage of its first occurrence
PaletteColorData(palette) ==
    LET names == {palette[i][1] : i \in 1..Len(palette)}
        first(n) == CHOOSE i \in 1..Len(palette) :
                        palette[i][1] = n /\ \A j \in 1..(i - 1) : palette[j][1] # n
    IN  [n \in names |-> Round2(palette[first(n)][2])]

BrandTag(brand) == company_ \o ReplaceSpace(Lower(brand))

RECURSIVE AddBrandTags(_, _)
AddBrandTags(tags, brands) ==
    IF brands = <<>> THEN tags
    ELSE LET tag == BrandTag(Head(brands))
         IN  AddBrandTags(IF Contains(tags, tag) THEN tags ELSE Append(tags, tag), Tail(brands))

generate_tags_for_image(clusters, brands) ==
    LET color_percentages == get_color_percentages(clusters)
    IN  [tags   |-> Dedupe(AddBrandTags(PaletteTags(color_percentages), brands)),
         colors |-> PaletteColorData(color_percentages)]

(***************************************************************************)
(* The products table.  A row holds the decoded tags_json and colors_json; *)
(* its id is its position (AUTOINCREMENT, rows are never deleted here).    *)
(***************************************************************************)
insert_product(tags, colors_data) ==
    products' = Append(products, [tags |-> tags, colors |-> colors_data])

\* list_all_products: every row, in id order
list_all_products == products

\* every table of at most n rows drawn from Rows
Tables(Rows, n) == UNION {[1..k -> Rows] : k \in 0..n}

\* One album of the scrape loop: tag the cover, merge the clothing tags of
\* the title, insert.  list(set(...)) leaves the order of the tags open.
Scrape(Palettes, ClothingLists, BrandLists) ==
    /\ Len(products) < MaxProducts
    /\ \E palette \in Palettes, clothing_tags \in ClothingLists, brands \in BrandLists :
          LET g == generate_tags_for_image(palette, brands)
          IN  \E all_tags \in Orderings(Range(clothing_tags) \cup Range(g.tags)) :
                 insert_product(all_tags, g.colors)

(***************************************************************************)
(* adjust_color_percentages (database.py 516-674).                         *)
(***************************************************************************)
\* 0.01: the dead zone of line 596 and the tolerance of line 655
Tolerance == <<1, 100>>

EPSILON == <<1, 1000000000>>

NoKey == <<"N", "o", "n", "e">>

\* first pass, lines 549-553: the key under which a row holds a target color
FoundKey(target_color, colors_data) ==
    IF target_color \in DOMAIN colors_data THEN target_color
    ELSE IF target_color = grey /\ gray \in DOMAIN colors_data THEN gray
    ELSE NoKey

\* first pass, lines 547-557, for one target color: <<total, count>> over the rows;
\* a color listed k times in colors_to_adjust is accumulated k times per row
RECURSIVE PassOne(_, _, _)
PassOne(rows, targets, target_color) ==
    IF rows = <<>> THEN <<RZero, 0>>
    ELSE LET rest == PassOne(Tail(rows), targets, target_color)
             k    == Cardinality({i \in 1..Len(targets) : targets[i] = target_color})
             key  == FoundKey(target_color, Head(rows).colors)
         IN  IF key # NoKey
             THEN <<RAdd(rest[1], RMul(RInt(k), Head(rows).colors[key])), rest[2] + k>>
             ELSE rest

\* lines 559-566
AveragePercentages(rows, targets) ==
    [t \in Range(targets) |->
        LET tc == PassOne(rows, targets, t)
        IN  IF tc[2] > 0 THEN RDiv(tc[1], RInt(tc[2])) ELSE RZero]

\* lines 586-590: the keys of one row adjusted for one target color
ColorKeysInProduct(target_color_name, original_colors) ==
    (IF target_color_name \in DOMAIN original_colors THEN <<target_color_name>> ELSE <<>>)
    \o (IF target_color_name = grey /\ gray \in DOMAIN original_colors
        THEN <<gray>> ELSE <<>>)

\* lines 584-590: the <<target, key>> pairs of one row, in loop order
RECURSIVE KeyPairs(_, _)
KeyPairs(targets, original_colors) ==
    IF targets = <<>> THEN <<>>
    ELSE LET keys == ColorKeysInProduct(Head(targets), original_colors)
         IN  [i \in 1..Len(keys) |-> <<Head(targets), keys[i]>>]
             \o KeyPairs(Tail(targets), original_colors)

\* lines 592-619: one iteration of the inner loop on the state st of the row
AdjustKey(st, original_colors, averages, target_color_name, key) ==
    LET old_value      == original_colors[key]
        average_value  == Get(averages, target_color_name)
        adjusted_value == RSub(old_value, average_value)
        tag_to_remove  == ColorTag(key)
    IN  IF RLt(RAbs(RSub(old_value, average_value)), Tolerance)
        THEN [st EXCEPT !.new_colors_data = Put(@, key, old_value)]
        ELSE IF RLt(EPSILON, adjusted_value)
        THEN [st EXCEPT !.product_changed = TRUE,
                        !.new_colors_data = Put(@, key, adjusted_value),
                        !.keys_to_adjust = @ \cup {key}]
        ELSE [st EXCEPT !.product_changed = TRUE,
                        !.current_tags_list = RemoveFirst(@, tag_to_remove),
                        !.tags_modified = @ \/ Contains(st.current_tags_list, tag_to_remove),
                        !.keys_to_adjust = @ \cup {key}]

RECURSIVE AdjustKeys(_, _, _, _)
AdjustKeys(st, original_colors, averages, pairs) ==
    IF pairs = <<>> THEN st
    ELSE AdjustKeys(AdjustKey(st, original_colors, averages, Head(pairs)[1], Head(pairs)[2]),
                    original_colors, averages, Tail(pairs))

\* lines 627-651: the other colors rescaled to the remaining budget
RescaleOthers(st, original_colors) ==
    LET others == (DOMAIN original_colors) \ st.keys_to_adjust
        total_other_colors_original == SumOver(original_colors, others)
        current_adjusted_sum_of_special_colors == SumValues(st.new_colors_data)
        diff == RSub(RHundred, current_adjusted_sum_of_special_colors)
        target_sum_other_colors == IF RLt(diff, RZero) THEN RZero ELSE diff
        scaled(c) == IF RLt(RZero, total_other_colors_original)
                     THEN RMul(original_colors[c],
                               RDiv(target_sum_other_colors, total_other_colors_original))
                     ELSE RZero
    IN  [c \in (DOMAIN st.new_colors_data) \cup others |->
            IF c \in others THEN scaled(c) ELSE st.new_colors_data[c]]

\* line 655: the final renormalization is needed
NeedsRenormalizing(m) == RLt(Tolerance, RAbs(RSub(SumValues(m), RHundred)))

\* the second pass without its final renormalization
RenormalizeSkipped(m) == m

\* lines 653-659; 100.0 / current_sum raises ZeroDivisionError on a sum of 0
Renormalize(m) ==
    IF NeedsRenormalizing(m) /\ SumValues(m) # RZero
    THEN [c \in DOMAIN m |-> RMul(m[c], RDiv(RHundred, SumValues(m)))]
    ELSE m

\* lines 573-659 for one row: what the second pass decides before it writes
AdjustProduct(row, targets, averages) ==
    LET st0 == [product_changed |-> FALSE, new_colors_data |-> EmptyMap,
                tags_modified |-> FALSE, current_tags_list |-> row.tags,
                keys_to_adjust |-> {}]
        st  == AdjustKeys(st0, row.colors, averages, KeyPairs(targets, row.colors))
        rescaled == RescaleOthers(st, row.colors)
    IN  [product_changed |-> st.product_changed,
         tags_modified   |-> st.tags_modified,
         new_tags        |-> st.current_tags_list,
         raises          |-> st.product_changed /\ NeedsRenormalizing(rescaled)
                                /\ SumValues(rescaled) = RZero,
         new_colors_data |-> Renormalize(rescaled)]

\* the test of line 568 left out
NothingToAdjustSkipped(avg) == FALSE

\* line 568: all(avg == 0.0 for avg in average_percentages.values())
NothingToAdjust(avg) == \A t \in DOMAIN avg : avg[t] = RZero

\* lines 534-570: the rows are read, the averages computed; nothing to adjust returns
AdjustBegin(TargetLists) ==
    /\ adj_pc \in {"idle", "returned", "raised"}
    /\ adj_runs < MaxAdjustRuns
    /\ \E targets \in TargetLists :
          LET avg == AveragePercentages(list_all_products, targets)
          IN  /\ colors_to_adjust' = targets
              /\ all_products' = list_all_products
              /\ average_percentages' = avg
              /\ adj_pc' = IF NothingToAdjust(avg) THEN "returned" ELSE "pass2"
    /\ adj_idx' = 1
    /\ adj_tags' = <<>>
    /\ updated_product_count' = 0
    /\ adj_written' = <<>>
    /\ adj_runs' = adj_runs + 1
    /\ UNCHANGED <<products, searchVars, simVars, visVars, extVars>>

CurrentDecision ==
    AdjustProduct(all_products[adj_idx], colors_to_adjust, average_percentages)

InPassTwo == adj_pc = "pass2" /\ adj_idx <= Len(all_products)

\* lines 621-623: the row is left alone
AdjustSkip ==
    /\ InPassTwo
    /\ ~CurrentDecision.product_changed
    /\ adj_idx' = adj_idx + 1
    /\ UNCHANGED <<products, adj_pc, colors_to_adjust, all_products, average_percentages,
                   adj_tags, updated_product_count, adj_written, adj_runs,
                   searchVars, simVars, visVars, extVars>>

\* line 657: ZeroDivisionError leaves the function; later rows stay as they are
AdjustRaise ==
    /\ InPassTwo
    /\ CurrentDecision.raises
    /\ adj_pc' = "raised"
    /\ UNCHANGED <<products, colors_to_adjust, all_products, average_percentages, adj_idx,
                   adj_tags, updated_product_count, adj_written, adj_runs,
                   searchVars, simVars, visVars, extVars>>

\* line 663: update_product_colors commits the new color map of the row
AdjustUpdateColors ==
    /\ InPassTwo
    /\ CurrentDecision.product_changed
    /\ ~CurrentDecision.raises
    /\ products' = [products EXCEPT ![adj_idx].colors = CurrentDecision.new_colors_data]
    /\ adj_written' = Put(adj_written, adj_idx, CurrentDecision.new_colors_data)
    /\ IF CurrentDecision.tags_modified
       THEN /\ adj_pc' = "tags"
            /\ adj_tags' = CurrentDecision.new_tags
            /\ UNCHANGED <<adj_idx, updated_product_count>>
       ELSE /\ adj_idx' = adj_idx + 1
            /\ updated_product_count' = updated_product_count + 1
            /\ UNCHANGED <<adj_pc, adj_tags>>
    /\ UNCHANGED <<colors_to_adjust, all_products, average_percentages, adj_runs,
                   searchVars, simVars, visVars, extVars>>

\* lines 664-667: update_product_tags commits the new tag list in a second transaction
AdjustUpdateTags ==
    /\ adj_pc = "tags"
    /\ products' = [products EXCEPT ![adj_idx].tags = adj_tags]
    /\ adj_pc' = "pass2"
    /\ adj_idx' = adj_idx + 1
    /\ updated_product_count' = updated_product_count + 1
    /\ UNCHANGED <<colors_to_adjust, all_products, average_percentages, adj_tags,
                   adj_written, adj_runs, searchVars, simVars, visVars, extVars>>

\* lines 669-674
AdjustReturn ==
    /\ adj_pc = "pass2"
    /\ adj_idx > Len(all_products)
    /\ adj_pc' = "returned"
    /\ UNCHANGED <<products, colors_to_adjust, all_products, average_percentages, adj_idx,
                   adj_tags, updated_product_count, adj_written, adj_runs,
                   searchVars, simVars, visVars, extVars>>

(***************************************************************************)
(* The catalog under renormalization: albums are scraped while an          *)
(* administrator calls POST /api/colors/adjust.                            *)
(***************************************************************************)
type_a == type_ \o <<"a">>

type_b == type_ \o <<"b">>

\* clustered covers of 64 x 64 pixels: {red: 70, grey: 30}, {grey: 50, red: 50},
\* two grey clusters, {white: 50, grey: 50}, {grey: 100}, {red: 100}
AdjustPalettes ==
    { << <<red, 2867>>, <<grey, 1229>> >>,
      << <<grey, 2048>>, <<red, 2048>> >>,
      << <<grey, 3072>>, <<grey, 1024>> >>,
      << <<white, 2048>>, <<grey, 2048>> >>,
      << <<grey, 4096>> >>,
      << <<red, 4096>> >> }

AdjustClothing == { <<type_a>> }

AdjustBrands == { <<>> }

\* the endpoint passes ["grey", "white"]; the function takes any list
AdjustTargets == { <<grey, white>>, <<grey>> }

Init ==
    /\ products = <<>>
    /\ adj_pc = "idle"
    /\ colors_to_adjust = <<>>
    /\ all_products = <<>>
    /\ average_percentages = <<>>
    /\ adj_idx = 1
    /\ adj_tags = <<>>
    /\ updated_product_count = 0
    /\ adj_written = <<>>
    /\ adj_runs = 0
    /\ search_pc = "idle"
    /\ search_in = <<>>
    /\ search_out = <<>>
    /\ sim_pc = "idle"
    /\ sim_in = <<>>
    /\ sim_out = <<>>
    /\ vis_pc = "idle"
    /\ vis_in = <<>>
    /\ vis_out = <<>>
    /\ ExtIdle

ScrapeAlbum ==
    /\ Scrape(AdjustPalettes, AdjustClothing, AdjustBrands)
    /\ UNCHANGED <<adjVars, searchVars, simVars, visVars, extVars>>

AdjustCall == AdjustBegin(AdjustTargets)

Next ==
    \/ ScrapeAlbum
    \/ AdjustCall
    \/ AdjustSkip
    \/ AdjustRaise
    \/ AdjustUpdateColors
    \/ AdjustUpdateTags
    \/ AdjustReturn

Spec == Init /\ [][Next]_vars

(***************************************************************************)
(* Renormalization: properties.                                            *)
(***************************************************************************)
SumsTo100(m) == RLe(RAbs(RSub(SumValues(m), RHundred)), Tolerance)

\* C1: every color map that adjust_color_percentages wrote has percentages that
\* sum to 100 within 0.01, during the run and after it returned, whatever the
\* corpus (maps that do not sum to 100 included) and the target colors.
WrittenMapsSumTo100 ==
    \A id \in DOMAIN adj_written : SumsTo100(adj_written[id])

\* C1 witness: adjust returned after writing a map for a row whose stored map
\* did not sum to 100.
WrittenMapsWitness ==
    /\ adj_pc = "returned"
    /\ \E id \in DOMAIN adj_written :
          /\ ~SumsTo100(all_products[id].colors)
          /\ products[id].colors = adj_written[id]

AdjustRunning == adj_pc \in {"pass2", "tags", "returned", "raised"}

\* C2: the color map and the tag list of a row change in one step: no state shows
\* the adjusted color map of a row with its old tag list, or the reverse.
ColorsAndTagsWrittenTogether ==
    AdjustRunning =>
        \A id \in 1..Len(all_products) :
            LET d == AdjustProduct(all_products[id], colors_to_adjust, average_percentages)
            IN  (d.product_changed /\ d.tags_modified /\ ~d.raises) =>
                    (products[id].colors = d.new_colors_data
                        <=> products[id].tags = d.new_tags)

\* C3: when adjust has returned, a row that had other colors besides a target
\* color equal to the average used for it has lost that color and its
\* color_<name> tag, and its remaining colors sum to 100.
EqualToAverageIsDropped ==
    adj_pc = "returned" =>
        \A id \in 1..Len(all_products) : \A t \in Range(colors_to_adjust) :
            (t \in DOMAIN all_products[id].colors
                /\ all_products[id].colors[t] = average_percentages[t]
                /\ (DOMAIN all_products[id].colors) \ Range(colors_to_adjust) # {})
            => /\ t \notin DOMAIN products[id].colors
               /\ ~Contains(products[id].tags, ColorTag(t))
               /\ SumValues(products[id].colors) = RHundred

\* C4: when adjust has returned, every row that had a target color holds that color
\* at the corpus average, and its percentages sum to 100.
TargetColorSetToAverage ==
    adj_pc = "returned" =>
        \A id \in 1..Len(all_products) : \A t \in Range(colors_to_adjust) :
            t \in DOMAIN all_products[id].colors
            => /\ Get(products[id].colors, t) = average_percentages[t]
               /\ SumsTo100(products[id].colors)

(***************************************************************************)
(* search_products_by_tags (database.py 249-360).                          *)
(***************************************************************************)
misc == <<"m", "i", "s", "c">>

type == <<"t", "y", "p", "e">>

\* lines 275-279: tag.split('_')[0] when the tag has an underscore, else "misc"
Category(tag) ==
    IF Contains(tag, "_")
    THEN LET i == CHOOSE k \in 1..Len(tag) : tag[k] = "_" /\ \A j \in 1..(k - 1) : tag[j] # "_"
         IN  SubSeq(tag, 1, i - 1)
    ELSE misc

\* lines 272-283: tag_categories[category], the requested tags of one category in order
TagCategory(tag_list, category) == SelectSeq(tag_list, LAMBDA t : Category(t) = category)

\* lines 298-299: INSTR(tags_json, '"<tag>"') > 0 on the stored JSON text
InstrTag(tags, tag) == Instr(JsonDumpsList(tags), <<Quote>> \o tag \o <<Quote>>)

\* lines 292-304: OR within a category, AND between the categories
WhereClause(row, tag_list) ==
    \A c \in {Category(tag_list[i]) : i \in 1..Len(tag_list)} :
        \E i \in 1..Len(tag_list) : Category(tag_list[i]) = c /\ InstrTag(row.tags, tag_list[i])

\* the ids of the rows of a table, in id order (the order of the SELECT)
Ids(rows) == [i \in 1..Len(rows) |-> i]

\* lines 321-333: the exclusive type filter on one row
ExclusiveTypeKeeps(row, tag_list) ==
    LET requested_type_tags == SelectSeq(TagCategory(tag_list, type), IsTypeTag)
        product_type_tags   == SelectSeq(row.tags, IsTypeTag)
    IN  /\ \A i \in 1..Len(product_type_tags) :
              Contains(requested_type_tags, product_type_tags[i])
        /\ Len(product_type_tags) = Len(requested_type_tags)

\* line 348: the relevance score of a row
RECURSIVE RelevanceScore(_, _)
RelevanceScore(colors_data, sort_by_colors) ==
    IF sort_by_colors = <<>> THEN RZero
    ELSE RAdd(Get(colors_data, Lower(Head(sort_by_colors))),
              RelevanceScore(colors_data, Tail(sort_by_colors)))

\* lines 338-356: highest relevance first
SortByColors(rows, ids, sort_by_colors) ==
    LET scored_results ==
            [i \in 1..Len(ids) |-> <<ids[i], RelevanceScore(rows[ids[i]].colors, sort_by_colors)>>]
        sorted == StableSort(scored_results, TRUE)
    IN  [i \in 1..Len(sorted) |-> sorted[i][1]]

\* the whole function: the ids of the rows it returns, in order
search_products_by_tags(rows, tag_list, sort_by_colors, exclusive_type_search) ==
    IF tag_list = <<>> THEN <<>>
    ELSE LET matched == SelectSeq(Ids(rows), LAMBDA id : WhereClause(rows[id], tag_list))
             exclusive == exclusive_type_search
                              /\ \E i \in 1..Len(tag_list) : Category(tag_list[i]) = type
             results == IF exclusive
                        THEN SelectSeq(matched, LAMBDA id : ExclusiveTypeKeeps(rows[id], tag_list))
                        ELSE matched
         IN  IF sort_by_colors # <<>> /\ results # <<>>
             THEN SortByColors(rows, results, sort_by_colors)
             ELSE results

(***************************************************************************)
(* GET /api/products (main.search_products): the tags parameter is split   *)
(* on commas and the pieces are stripped.                                  *)
(***************************************************************************)
\* str.split(sep) for a separator of one character
RECURSIVE Split(_, _)
Split(s, sep) ==
    IF ~Contains(s, sep) THEN <<s>>
    ELSE LET i == CHOOSE k \in 1..Len(s) : s[k] = sep /\ \A j \in 1..(k - 1) : s[j] # sep
         IN  <<SubSeq(s, 1, i - 1)>> \o Split(SubSeq(s, i + 1, Len(s)), sep)

\* a piece taken as it is
StripSkipped(s) == s

\* str.strip(): the white space of the model is the blank
RECURSIVE Strip(_)
Strip(s) ==
    IF s = <<>> THEN s
    ELSE IF Head(s) = " " THEN Strip(Tail(s))
    ELSE IF s[Len(s)] = " " THEN Strip(SubSeq(s, 1, Len(s) - 1))
    ELSE s

\* line 667: [t.strip() for t in tags.split(",") if t.strip()]
ParseTagList(tags) ==
    LET pieces == Split(tags, ",")
        kept   == SelectSeq(pieces, LAMBDA t : Strip(t) # <<>>)
    IN  [i \in 1..Len(kept) |-> Strip(kept[i])]

(***************************************************************************)
(* Searching a catalog: the table holds scraped rows; one search is made.  *)
(***************************************************************************)
\* a row as the scrape loop inserts it, in one of the orders of its tags
ScrapedRow(palette, clothing_tags, brands) ==
    LET g == generate_tags_for_image(palette, brands)
    IN  [tags |-> Dedupe(clothing_tags \o g.tags), colors |-> g.colors]

Red == <<"R", "e", "d">>

SearchPalettes ==
    { << <<red, 3072>>, <<blue, 1024>> >>,
      << <<red, 4096>> >>,
      << <<blue, 4096>> >> }

SearchClothing == { <<type_a>>, <<type_a, type_b>> }

\* a brand without and a brand with a non-ASCII letter
SearchBrands == { <<>>, << <<Eacute>> >> }

SearchRows ==
    {ScrapedRow(p, c, b) : p \in SearchPalettes, c \in SearchClothing, b \in SearchBrands}

\* requested tags: stored tags, a word that is only part of a stored tag, and
\* a text that spans two neighbouring stored tags
SearchTags ==
    { type_a, type_b, ColorTag(red), BrandTag(<<Eacute>>), red,
      type_a \o <<Quote, ",", " ", Quote>> \o type_b }

SearchTagLists == UNION {[1..k -> SearchTags] : k \in 0..MaxQueryLen}

\* values of the tags parameter of GET /api/products
SearchQueries ==
    { <<>>, <<" ">>, <<",">>, <<" ", ",", " ">>,
      type_a, <<" ">> \o type_a \o <<",">>,
      type_a \o <<",">> \o type_b,
      ColorTag(red) \o <<",", " ">> \o type_a }

SearchSortLists == { <<>>, <<Red>>, <<red, blue>> }

InitSearch ==
    /\ products \in Tables(SearchRows, MaxProducts)
    /\ adj_pc = "idle"
    /\ colors_to_adjust = <<>>
    /\ all_products = <<>>
    /\ average_percentages = <<>>
    /\ adj_idx = 1
    /\ adj_tags = <<>>
    /\ updated_product_count = 0
    /\ adj_written = <<>>
    /\ adj_runs = 0
    /\ search_pc = "idle"
    /\ search_in = <<>>
    /\ search_out = <<>>
    /\ sim_pc = "idle"
    /\ sim_in = <<>>
    /\ sim_out = <<>>
    /\ vis_pc = "idle"
    /\ vis_in = <<>>
    /\ vis_out = <<>>
    /\ ExtIdle

\* a call of search_products_by_tags, which reads the table once
SearchProducts ==
    /\ search_pc = "idle"
    /\ \E tag_list \in SearchTagLists, sort_by_colors \in SearchSortLists,
          exclusive_type_search \in BOOLEAN :
          /\ search_in' = [request |-> "core", tags |-> <<>>, tag_list |-> tag_list,
                           sort_by_colors |-> sort_by_colors,
                           exclusive_type_search |-> exclusive_type_search]
          /\ search_out' = search_products_by_tags(products, tag_list, sort_by_colors,
                                                   exclusive_type_search)
    /\ search_pc' = "done"
    /\ UNCHANGED <<products, adjVars, simVars, visVars, extVars>>

\* GET /api/products without sort parameter: 400 when no tag is left, else the
\* core search is called with the parsed list
SearchRequest ==
    /\ search_pc = "idle"
    /\ \E tags \in SearchQueries, exclusive_type_search \in BOOLEAN :
          LET tag_list == ParseTagList(tags)
          IN  /\ search_in' = [request |-> "http", tags |-> tags, tag_list |-> tag_list,
                               sort_by_colors |-> <<>>,
                               exclusive_type_search |-> exclusive_type_search]
              /\ search_out' = IF tag_list = <<>> THEN <<>>
                               ELSE search_products_by_tags(products, tag_list, <<>>,
                                                            exclusive_type_search)
              /\ search_pc' = IF tag_list = <<>> THEN "http400" ELSE "done"
    /\ UNCHANGED <<products, adjVars, simVars, visVars, extVars>>

NextSearch == SearchProducts \/ SearchRequest

SpecSearch == InitSearch /\ [][NextSearch]_vars

(***************************************************************************)
(* Search: properties.                                                     *)
(***************************************************************************)
SearchDone == search_pc = "done"

HasTag(row, tag) == \E i \in 1..Len(row.tags) : row.tags[i] = tag

\* the rows that hold, for every category of the query, one of its requested tags
MatchesEveryCategory(row, tag_list) ==
    \A i \in 1..Len(tag_list) :
        \E j \in 1..Len(tag_list) :
            Category(tag_list[j]) = Category(tag_list[i]) /\ HasTag(row, tag_list[j])

\* C5: a search without the exclusive flag returns exactly the stored rows that
\* hold, for every category of the query, at least one requested tag of that
\* category (OR within a category, AND across categories).
SearchIsOrWithinAndAcross ==
    (SearchDone /\ search_in.tag_list # <<>> /\ ~search_in.exclusive_type_search) =>
        Range(search_out) =
            {id \in 1..Len(products) : MatchesEveryCategory(products[id], search_in.tag_list)}

\* C6: a requested tag matches a row exactly when the row's tag list has an
\* element equal to it: never on a part of a tag or across two tags, always on
\* the tag itself.
TagMatchIsExact ==
    SearchDone =>
        \A id \in 1..Len(products) : \A i \in 1..Len(search_in.tag_list) :
            InstrTag(products[id].tags, search_in.tag_list[i])
                <=> HasTag(products[id], search_in.tag_list[i])

TypeTagsOf(tags) == {tags[i] : i \in {k \in 1..Len(tags) : IsTypeTag(tags[k])}}

QueryHasType(tag_list) == \E i \in 1..Len(tag_list) : Category(tag_list[i]) = type

MatchedIds ==
    search_products_by_tags(products, search_in.tag_list, <<>>, FALSE)

\* C7: with exclusive_type_search and a type category in the query, a matching row
\* is kept exactly when the set of its type_ tags equals the set of requested
\* type_ tags, also when the query repeats a tag; without a type category the
\* flag changes nothing.
ExclusiveTypeIsSetEquality ==
    (SearchDone /\ search_in.exclusive_type_search) =>
        Range(search_out) =
            IF QueryHasType(search_in.tag_list)
            THEN {id \in Range(MatchedIds) :
                    TypeTagsOf(products[id].tags) = TypeTagsOf(search_in.tag_list)}
            ELSE Range(MatchedIds)

\* the sum of a row's percentages for the listed colors, names in lower case,
\* a color the map lacks counting 0
RECURSIVE ListedColorsSum(_, _, _)
ListedColorsSum(colors, listed, n) ==
    IF n = 0 THEN RZero
    ELSE LET c == Lower(listed[n])
         IN  RAdd(IF c \in DOMAIN colors THEN colors[c] ELSE RZero,
                  ListedColorsSum(colors, listed, n - 1))

SearchScore(id) ==
    ListedColorsSum(products[id].colors, search_in.sort_by_colors,
                    Len(search_in.sort_by_colors))

UnsortedIds ==
    search_products_by_tags(products, search_in.tag_list, <<>>,
                            search_in.exclusive_type_search)

PositionIn(s, x) == CHOOSE i \in 1..Len(s) : s[i] = x

\* C8: with a non-empty sort_by_colors the result holds the same rows as without
\* it, each once, in descending order of the sum of the listed colors'
\* percentages, and rows with equal sums keep the order they had before.
SortedByListedColors ==
    (SearchDone /\ search_in.sort_by_colors # <<>>) =>
        /\ Len(search_out) = Len(UnsortedIds)
        /\ Range(search_out) = Range(UnsortedIds)
        /\ \A i, j \in 1..Len(search_out) :
              i < j =>
                /\ RLe(SearchScore(search_out[j]), SearchScore(search_out[i]))
                /\ SearchScore(search_out[i]) = SearchScore(search_out[j])
                      => PositionIn(UnsortedIds, search_out[i])
                            < PositionIn(UnsortedIds, search_out[j])

\* C8 witness: a sorted search returned two rows in another order than the table's.
SortedWitness ==
    /\ SearchDone
    /\ search_in.sort_by_colors # <<>>
    /\ Len(search_out) >= 2
    /\ search_out # UnsortedIds

(***************************************************************************)
(* calculate_color_similarity and find_similar_products_by_color           *)
(* (database.py 1160-1306).                                                *)
(***************************************************************************)
RECURSIVE TotalDifference(_, _, _)
TotalDifference(colors1, colors2, all_colors) ==
    IF all_colors = {} THEN RZero
    ELSE LET color == CHOOSE c \in all_colors : TRUE
         IN  RAdd(RAbs(RSub(Get(colors1, color), Get(colors2, color))),
                  TotalDifference(colors1, colors2, all_colors \ {color}))

calculate_color_similarity(colors1, colors2) ==
    IF colors1 = EmptyMap \/ colors2 = EmptyMap THEN RHundred
    ELSE RDiv(TotalDifference(colors1, colors2, (DOMAIN colors1) \cup (DOMAIN colors2)),
              RInt(2))

\* lines 1238-1267: the WHERE clause of the candidate query
IsCandidate(row, ref_type_tags, ref_brand_tags, same_brand) ==
    /\ \E i \in 1..Len(ref_type_tags) : InstrTag(row.tags, ref_type_tags[i])
    /\ (same_brand /\ ref_brand_tags # <<>>) =>
          \E i \in 1..Len(ref_brand_tags) : InstrTag(row.tags, ref_brand_tags[i])

\* the guard of lines 1234-1237 left out
HasNoTypeTagsSkipped(ref_type_tags) == FALSE

\* lines 1234-1237: if not ref_type_tags: return []
HasNoTypeTags(ref_type_tags) == ref_type_tags = <<>>

\* lines 1240-1244: one INSTR condition for each type tag of the reference
TypeTagConditions(ref_type_tags) == [i \in 1..Len(ref_type_tags) |-> ref_type_tags[i]]

\* line 1270: with no condition the query text is WHERE (), which SQLite
\* rejects, and cursor.execute raises
find_similar_raises(rows, product_id) ==
    /\ product_id \in 1..Len(rows)
    /\ LET ref_type_tags == SelectSeq(rows[product_id].tags, IsTypeTag)
       IN  ~HasNoTypeTags(ref_type_tags) /\ TypeTagConditions(ref_type_tags) = <<>>

\* the whole function: the <<id, similarity_score>> pairs it returns, in order
find_similar_products_by_color(rows, product_id, limit, same_brand) ==
    IF product_id \notin 1..Len(rows) THEN <<>>
    ELSE LET ref_tags       == rows[product_id].tags
             ref_colors     == rows[product_id].colors
             ref_type_tags  == SelectSeq(ref_tags, IsTypeTag)
             ref_brand_tags == SelectSeq(ref_tags, IsCompanyTag)
             candidate_rows ==
                 SelectSeq(Ids(rows), LAMBDA id :
                     IsCandidate(rows[id], ref_type_tags, ref_brand_tags, same_brand))
             results ==
                 [i \in 1..Len(candidate_rows) |->
                     <<candidate_rows[i],
                       calculate_color_similarity(ref_colors, rows[candidate_rows[i]].colors)>>]
             sorted == StableSort(results, FALSE)
         IN  IF HasNoTypeTags(ref_type_tags) THEN <<>>
             ELSE SubSeq(sorted, 1, IF limit < Len(sorted) THEN limit ELSE Len(sorted))

(***************************************************************************)
(* Similar products in a catalog: the table holds scraped rows and rows    *)
(* stored without color data; one similarity search is made.               *)
(***************************************************************************)
brand_n == <<"n">>

\* clustered covers of 64 x 64 pixels; the last rounds to 33.35 + 33.33 + 33.33
SimilarPalettes ==
    { << <<grey, 4096>> >>,
      << <<blue, 4096>> >>,
      << <<red, 3072>>, <<blue, 1024>> >>,
      << <<red, 3072>>, <<red, 1024>> >>,
      << <<red, 1366>>, <<blue, 1365>>, <<white, 1365>> >> }

SimilarClothing == { <<>>, <<type_a>>, <<type_a, type_b>> }

SimilarBrands == { <<>>, <<brand_n>> }

\* insert_product without colors_data stores {}
RowWithoutColors(tags) == [tags |-> tags, colors |-> EmptyMap]

SimilarRows ==
    {ScrapedRow(p, c, b) : p \in SimilarPalettes, c \in SimilarClothing, b \in SimilarBrands}
    \cup {RowWithoutColors(<<type_a>>)}

InitSimilar ==
    /\ products \in Tables(SimilarRows, MaxProducts)
    /\ adj_pc = "idle"
    /\ colors_to_adjust = <<>>
    /\ all_products = <<>>
    /\ average_percentages = <<>>
    /\ adj_idx = 1
    /\ adj_tags = <<>>
    /\ updated_product_count = 0
    /\ adj_written = <<>>
    /\ adj_runs = 0
    /\ search_pc = "idle"
    /\ search_in = <<>>
    /\ search_out = <<>>
    /\ sim_pc = "idle"
    /\ sim_in = <<>>
    /\ sim_out = <<>>
    /\ vis_pc = "idle"
    /\ vis_in = <<>>
    /\ vis_out = <<>>
    /\ ExtIdle

\* GET /api/products/similar-by-color/{product_id}: limit >= 1, any product id
FindSimilar ==
    /\ sim_pc = "idle"
    /\ \E product_id \in 1..(MaxProducts + 1), limit \in 1..MaxLimit, same_brand \in BOOLEAN :
          /\ sim_in' = [product_id |-> product_id, limit |-> limit, same_brand |-> same_brand]
          /\ sim_out' = IF find_similar_raises(products, product_id) THEN <<>>
                        ELSE find_similar_products_by_color(products, product_id, limit, same_brand)
          /\ sim_pc' = IF find_similar_raises(products, product_id) THEN "raised" ELSE "done"
    /\ UNCHANGED <<products, adjVars, searchVars, visVars, extVars>>

NextSimilar == FindSimilar

SpecSimilar == InitSimilar /\ [][NextSimilar]_vars

(***************************************************************************)
(* Similarity: properties.                                                 *)
(***************************************************************************)
SimilarDone == sim_pc = "done"

CompanyTagsOf(tags) == {tags[i] : i \in {k \in 1..Len(tags) : IsCompanyTag(tags[k])}}

\* C9: every returned row shares a type_ tag with the reference row and, when
\* same_brand is set, a company_ tag too, also when the reference has none.
SimilarShareTypeAndBrand ==
    SimilarDone =>
        \A i \in 1..Len(sim_out) :
            LET ref == products[sim_in.product_id]
                row == products[sim_out[i][1]]
            IN  /\ TypeTagsOf(ref.tags) \cap TypeTagsOf(row.tags) # {}
                /\ sim_in.same_brand =>
                      CompanyTagsOf(ref.tags) \cap CompanyTagsOf(row.tags) # {}

\* half the sum, over a set of color names, of the absolute differences
RECURSIVE HalfL1(_, _, _)
HalfL1(m1, m2, names) ==
    IF names = {} THEN RZero
    ELSE LET c  == CHOOSE x \in names : TRUE
             p1 == IF c \in DOMAIN m1 THEN m1[c] ELSE RZero
             p2 == IF c \in DOMAIN m2 THEN m2[c] ELSE RZero
             d  == IF RLt(p1, p2) THEN RSub(p2, p1) ELSE RSub(p1, p2)
         IN  RAdd(RMul(d, <<1, 2>>), HalfL1(m1, m2, names \ {c}))

\* C10: the score of a returned row is 100 when the reference's or the row's map
\* is empty and otherwise half the sum over the union of their color names of
\* the absolute differences; it lies in [0, 100], is 0 for equal maps and 100
\* for maps that share no color.
DistanceIsHalfL1 ==
    SimilarDone =>
        \A i \in 1..Len(sim_out) :
            LET m1 == products[sim_in.product_id].colors
                m2 == products[sim_out[i][1]].colors
                d  == sim_out[i][2]
            IN  /\ RLe(RZero, d) /\ RLe(d, RHundred)
                /\ (m1 = EmptyMap \/ m2 = EmptyMap) => d = RHundred
                /\ (m1 # EmptyMap /\ m2 # EmptyMap) =>
                      /\ d = HalfL1(m1, m2, (DOMAIN m1) \cup (DOMAIN m2))
                      /\ m1 = m2 => d = RZero
                      /\ (DOMAIN m1) \cap (DOMAIN m2) = {} => d = RHundred

SimilarCandidates ==
    LET ref == products[sim_in.product_id]
    IN  {id \in 1..Len(products) :
            IsCandidate(products[id], SelectSeq(ref.tags, IsTypeTag),
                        SelectSeq(ref.tags, IsCompanyTag), sim_in.same_brand)}

SimilarReturned == {sim_out[i][1] : i \in 1..Len(sim_out)}

\* C11: a similarity search on a stored row that has a type_ tag returns that row
\* first, at distance 0.
ReferenceIsFirstAtZero ==
    (SimilarDone /\ sim_in.product_id \in 1..Len(products)
        /\ TypeTagsOf(products[sim_in.product_id].tags) # {})
    => /\ sim_out # <<>>
       /\ sim_out[1] = <<sim_in.product_id, RZero>>

\* C12: the returned distances do not decrease along the result, the result has
\* at most limit rows, and no candidate left out is strictly nearer than a
\* returned one.
SortedByDistanceAndTruncated ==
    SimilarDone =>
        /\ \A i, j \in 1..Len(sim_out) : i < j => RLe(sim_out[i][2], sim_out[j][2])
        /\ Len(sim_out) <= sim_in.limit
        /\ sim_out # <<>> =>
              \A id \in SimilarCandidates \ SimilarReturned : \A i \in 1..Len(sim_out) :
                  RLe(sim_out[i][2],
                      calculate_color_similarity(products[sim_in.product_id].colors,
                                                 products[id].colors))

\* C12 witness: the limit left out a candidate, and the row returned has a higher
\* id and a strictly smaller distance than the one left out.
TruncatedWitness ==
    /\ SimilarDone
    /\ Len(sim_out) = sim_in.limit
    /\ \E id \in SimilarCandidates \ SimilarReturned :
          /\ id < sim_out[1][1]
          /\ RLt(sim_out[1][2],
                 calculate_color_similarity(products[sim_in.product_id].colors,
                                            products[id].colors))

SimilarEnded == sim_pc \in {"done", "raised"}

\* C13: a similarity search whose reference id is not stored, or whose reference
\* row has no type_ tag, returns the empty list and does not raise.
UnknownOrUntypedReturnsEmpty ==
    (SimilarEnded
        /\ (sim_in.product_id \notin 1..Len(products)
              \/ TypeTagsOf(products[sim_in.product_id].tags) = {}))
    => sim_pc = "done" /\ sim_out = <<>>

\* C13 witness: a search has returned whose reference is stored and has no
\* type_ tag.
UntypedReferenceWitness ==
    /\ SimilarDone
    /\ sim_in.product_id \in 1..Len(products)
    /\ TypeTagsOf(products[sim_in.product_id].tags) = {}

\* the text holds nothing but blanks and commas
OnlyBlanksAndCommas(tags) == \A i \in 1..Len(tags) : tags[i] \in {" ", ","}

\* C14: search_products_by_tags called with the empty list returns no row, and a
\* request whose tags parameter holds no tag once split and trimmed is answered
\* with an error without the core search being called.
EmptyQueryReturnsNothing ==
    /\ (SearchDone /\ search_in.tag_list = <<>>) => search_out = <<>>
    /\ (search_pc # "idle" /\ search_in.request = "http"
            /\ OnlyBlanksAndCommas(search_in.tags))
       => search_pc = "http400"

\* C14 witness: a request with blanks around a comma was rejected while the table
\* holds rows.
EmptyQueryWitness ==
    /\ search_pc = "http400"
    /\ search_in.tags = <<" ", ",", " ">>
    /\ products # <<>>

\* C15: when adjust has returned, the second pass applied once more, with the same
\* averages, to a row it wrote leaves the color map and the tags of that row as
\* they are.
PassTwoIsIdempotent ==
    adj_pc = "returned" =>
        \A id \in DOMAIN adj_written :
            LET d == AdjustProduct(products[id], colors_to_adjust, average_percentages)
            IN  /\ ~d.raises
                /\ d.product_changed =>
                      /\ d.new_colors_data = products[id].colors
                      /\ d.new_tags = products[id].tags

\* the keys a target color stands for in a map: the color, and gray for grey
TargetKeys(targets) ==
    Range(targets) \cup (IF grey \in Range(targets) THEN {gray} ELSE {})

\* C16: when adjust has returned, for every row it wrote, a target color that it
\* dropped from the map has no color_<name> tag left in the row, and every tag
\* that it removed is the color_<name> tag of a color that is no longer in the map.
DroppedColorsAndTagsAgree ==
    adj_pc = "returned" =>
        \A id \in DOMAIN adj_written :
            /\ \A k \in TargetKeys(colors_to_adjust) :
                  (k \in DOMAIN all_products[id].colors /\ k \notin DOMAIN products[id].colors)
                  => ~Contains(products[id].tags, ColorTag(k))
            /\ \A t \in Range(all_products[id].tags) \ Range(products[id].tags) :
                  \E k \in DOMAIN all_products[id].colors :
                      t = ColorTag(k) /\ k \notin DOMAIN products[id].colors

\* C16 witness: adjust has returned after dropping grey and its tag from a row
\* that keeps another color.
DroppedColorWitness ==
    /\ adj_pc = "returned"
    /\ \E id \in DOMAIN adj_written :
          /\ grey \in DOMAIN all_products[id].colors
          /\ Contains(all_products[id].tags, ColorTag(grey))
          /\ grey \notin DOMAIN products[id].colors
          /\ ~Contains(products[id].tags, ColorTag(grey))
          /\ products[id].colors # EmptyMap

\* no row that adjust read holds a target color
NoTargetInCorpus ==
    \A id \in 1..Len(all_products) :
        (DOMAIN all_products[id].colors) \cap TargetKeys(colors_to_adjust) = {}

\* C17: adjust called on an empty corpus, or on one in which no row holds a target
\* color, has returned at once with zero rows updated: it does not raise, and the
\* rows it read are stored as they were.
NothingToAdjustIsNoOp ==
    (AdjustRunning /\ NoTargetInCorpus) =>
        /\ adj_pc = "returned"
        /\ updated_product_count = 0
        /\ adj_written = <<>>
        /\ \A id \in 1..Len(all_products) : products[id] = all_products[id]

\* C17 witness: adjust has returned on a corpus of rows without a target color.
NothingToAdjustWitness ==
    /\ adj_pc = "returned"
    /\ all_products # <<>>
    /\ NoTargetInCorpus

\* C18: in every state of the store, every non-empty color map has percentages
\* that are not negative and sum to 100 within 0.01, also for a cover with
\* several clusters of one color name.
StoredMapsSumTo100 ==
    \A id \in 1..Len(products) :
        products[id].colors # EmptyMap =>
            /\ \A c \in DOMAIN products[id].colors : RLe(RZero, products[id].colors[c])
            /\ SumsTo100(products[id].colors)

(***************************************************************************)
(* The tag generator on clustered images: every labelling of up to         *)
(* MaxPixels pixels with up to MaxClusters centres.                        *)
(***************************************************************************)
VisionColors == {red, grey}

VisionImages ==
    UNION {[labels : [1..n -> 1..MaxClusters], centers : [1..MaxClusters -> VisionColors]] :
              n \in 1..MaxPixels}

\* brand names found in the title; two names may give one tag
VisionBrands == { <<>>, <<brand_n>>, << <<"R">>, <<"r">> >> }

InitVision ==
    /\ products = <<>>
    /\ adj_pc = "idle"
    /\ colors_to_adjust = <<>>
    /\ all_products = <<>>
    /\ average_percentages = <<>>
    /\ adj_idx = 1
    /\ adj_tags = <<>>
    /\ updated_product_count = 0
    /\ adj_written = <<>>
    /\ adj_runs = 0
    /\ search_pc = "idle"
    /\ search_in = <<>>
    /\ search_out = <<>>
    /\ sim_pc = "idle"
    /\ sim_in = <<>>
    /\ sim_out = <<>>
    /\ vis_pc = "idle"
    /\ vis_in \in [image : VisionImages, brands : VisionBrands]
    /\ vis_out = <<>>
    /\ ExtIdle

\* _get_color_percentages(image)
GetColorPercentages ==
    /\ vis_pc = "idle"
    /\ vis_out' = get_color_percentages(ZippedClusters(vis_in.image))
    /\ vis_pc' = "palette"
    /\ UNCHANGED <<products, adjVars, searchVars, simVars, vis_in, extVars>>

\* generate_tags_for_image(url, album_title)
GenerateTags ==
    /\ vis_pc = "idle"
    /\ vis_out' = generate_tags_for_image(ZippedClusters(vis_in.image), vis_in.brands)
    /\ vis_pc' = "tags"
    /\ UNCHANGED <<products, adjVars, searchVars, simVars, vis_in, extVars>>

NextVision == GetColorPercentages \/ GenerateTags

SpecVision == InitVision /\ [][NextVision]_vars

(***************************************************************************)
(* Tag generator: properties.                                              *)
(***************************************************************************)
RECURSIVE SumOfPercentages(_)
SumOfPercentages(palette) ==
    IF palette = <<>> THEN RZero
    ELSE RAdd(Head(palette)[2], SumOfPercentages(Tail(palette)))

\* C19: the percentages of the palette returned by _get_color_percentages sum to
\* 100 within 0.01 and do not increase along the list.
PaletteSumsTo100AndFalls ==
    vis_pc = "palette" =>
        /\ RLe(RAbs(RSub(SumOfPercentages(vis_out), RHundred)), Tolerance)
        /\ \A i, j \in 1..Len(vis_out) : i < j => RLe(vis_out[j][2], vis_out[i][2])

\* C19 witness: a palette of three entries was returned for an image whose
\* first-seen label has the fewest pixels.
PaletteWitness ==
    /\ vis_pc = "palette"
    /\ Len(vis_out) = 3
    /\ LET c == ZippedClusters(vis_in.image) IN c[1][2] < c[2][2]

GeneratedPalette == get_color_percentages(ZippedClusters(vis_in.image))

\* the position of the highest-ranked entry of a name in the palette
HighestRanked(palette, n) ==
    CHOOSE i \in 1..Len(palette) : palette[i][1] = n /\ \A j \in 1..(i - 1) : palette[j][1] # n

NoDuplicates(s) == \A i, j \in 1..Len(s) : s[i] = s[j] => i = j

\* the color tags of the palette names and then the brand tags, each where it
\* first occurs
TagsInInsertionOrder ==
    LET palette    == GeneratedPalette
        color_tags == [i \in 1..Len(palette) |-> ColorTag(palette[i][1])]
        brand_tags == [i \in 1..Len(vis_in.brands) |-> BrandTag(vis_in.brands[i])]
        all        == color_tags \o brand_tags
        firsts     == {i \in 1..Len(all) : \A j \in 1..(i - 1) : all[j] # all[i]}
    IN  /\ NoDuplicates(vis_out.tags)
        /\ Range(vis_out.tags) = Range(all)
        /\ \A i, j \in firsts :
              i < j => \E a, b \in 1..Len(vis_out.tags) :
                          a < b /\ vis_out.tags[a] = all[i] /\ vis_out.tags[b] = all[j]

KeysAreColorTagNames ==
    /\ DOMAIN vis_out.colors = {GeneratedPalette[i][1] : i \in 1..Len(GeneratedPalette)}
    /\ \A n \in VisionColors :
          n \in DOMAIN vis_out.colors <=> Contains(vis_out.tags, ColorTag(n))

color_checks ==
    << <<"w", "h", "i", "t", "e">>,
       <<"l", "i", "g", "h", "t", "g", "r", "e", "y">>,
       <<"g", "r", "e", "y">>,
       <<"d", "a", "r", "k", "g", "r", "e", "y">>,
       <<"b", "l", "a", "c", "k">>,
       <<"m", "a", "r", "o", "o", "n">>,
       <<"n", "a", "v", "y">>,
       <<"r", "e", "d">>,
       <<"g", "r", "e", "e", "n">>,
       <<"b", "l", "u", "e">>,
       <<"y", "e", "l", "l", "o", "w">>,
       <<"c", "y", "a", "n">>,
       <<"m", "a", "g", "e", "n", "t", "a">>,
       <<"d", "a", "r", "k", "r", "e", "d">>,
       <<"d", "a", "r", "k", "g", "r", "e", "e", "n">>,
       <<"d", "a", "r", "k", "b", "l", "u", "e">>,
       <<"o", "r", "a", "n", "g", "e">>,
       <<"d", "a", "r", "k", "o", "r", "a", "n", "g", "e">>,
       <<"o", "r", "a", "n", "g", "e", "r", "e", "d">>,
       <<"g", "o", "l", "d">>,
       <<"k", "h", "a", "k", "i">>,
       <<"t", "a", "n">>,
       <<"b", "r", "o", "w", "n">>,
       <<"c", "h", "o", "c", "o", "l", "a", "t", "e">>,
       <<"s", "a", "d", "d", "l", "e", "b", "r", "o", "w", "n">>,
       <<"p", "e", "r", "u">>,
       <<"b", "e", "i", "g", "e">>,
       <<"i", "v", "o", "r", "y">>,
       <<"l", "i", "m", "e">>,
       <<"f", "o", "r", "e", "s", "t", "g", "r", "e", "e", "n">>,
       <<"t", "e", "a", "l">>,
       <<"o", "l", "i", "v", "e">>,
       <<"n", "a", "v", "y">>,
       <<"r", "o", "y", "a", "l", "b", "l", "u", "e">>,
       <<"c", "o", "r", "n", "f", "l", "o", "w", "e", "r", "b", "l", "u", "e">>,
       <<"s", "k", "y", "b", "l", "u", "e">>,
       <<"l", "i", "g", "h", "t", "b", "l", "u", "e">>,
       <<"t", "u", "r", "q", "u", "o", "i", "s", "e">>,
       <<"d", "a", "r", "k", "v", "i", "o", "l", "e", "t">>,
       <<"p", "u", "r", "p", "l", "e">>,
       <<"i", "n", "d", "i", "g", "o">>,
       <<"v", "i", "o", "l", "e", "t">>,
       <<"h", "o", "t", "p", "i", "n", "k">>,
       <<"p", "i", "n", "k">>,
       <<"l", "i", "g", "h", "t", "p", "i", "n", "k">>,
       <<"s", "a", "l", "m", "o", "n">>,
       <<"l", "i", "g", "h", "t", "s", "a", "l", "m", "o", "n">>,
       <<"c", "r", "i", "m", "s", "o", "n">>,
       <<"s", "i", "l", "v", "e", "r">> >>

\* lines 444-514: the predicate of the i-th rule
check_func(i, b, g, r) ==
    CASE i = 1 -> r > 235 /\ g > 235 /\ b > 235
      [] i = 2 -> r > 200 /\ g > 200 /\ b > 200 /\ r < 235 /\ AbsInt(r - g) < 30 /\ AbsInt(g - b) < 30
      [] i = 3 -> r > 110 /\ g > 110 /\ b > 110 /\ r < 200 /\ AbsInt(r - g) < 50 /\ AbsInt(g - b) < 50
      [] i = 4 -> r > 50 /\ g > 50 /\ b > 50 /\ r < 110 /\ AbsInt(r - g) < 50 /\ AbsInt(g - b) < 50
      [] i = 5 -> r < 50 /\ g < 50 /\ b < 50
      [] i = 6 -> r > 80 /\ r < 160 /\ g < 90 /\ b < 90
      [] i = 7 -> b > 100 /\ b < 160 /\ g < 80 /\ r < 80
      [] i = 8 -> r > 220 /\ g < 100 /\ b < 100
      [] i = 9 -> g > 200 /\ r < 140 /\ b < 140
      [] i = 10 -> b > 200 /\ r < 140 /\ g < 140
      [] i = 11 -> g > 220 /\ r > 220 /\ b < 100
      [] i = 12 -> b > 220 /\ g > 220 /\ r < 100
      [] i = 13 -> b > 220 /\ r > 220 /\ g < 100
      [] i = 14 -> r > 120 /\ r < 200 /\ g < 80 /\ b < 80
      [] i = 15 -> g > 100 /\ g < 180 /\ r < 100 /\ b < 100
      [] i = 16 -> b > 120 /\ b < 200 /\ r < 100 /\ g < 100
      [] i = 17 -> r > 200 /\ g > 140 /\ b < 100 /\ r > g
      [] i = 18 -> r > 160 /\ r < 200 /\ g > 100 /\ g < 160 /\ b < 100
      [] i = 19 -> r > 180 /\ g > 80 /\ g < 140 /\ b < 100
      [] i = 20 -> g > 180 /\ r > 180 /\ b < 100 /\ AbsInt(r - g) < 80
      [] i = 21 -> r > 190 /\ g > 200 /\ b > 140 /\ b < 180
      [] i = 22 -> r > 150 /\ g > 130 /\ b > 100 /\ r > g /\ g > b
      [] i = 23 -> r > 80 /\ r < 180 /\ g > 50 /\ g < 130 /\ b > 40 /\ b < 120
      [] i = 24 -> r > 140 /\ r < 200 /\ g > 70 /\ g < 140 /\ b > 30 /\ b < 100
      [] i = 25 -> r > 70 /\ r < 140 /\ g > 40 /\ g < 100 /\ b > 30 /\ b < 90
      [] i = 26 -> r > 160 /\ g > 120 /\ g < 180 /\ b > 60 /\ b < 130
      [] i = 27 -> r > 200 /\ g > 200 /\ b > 180 /\ r < 240
      [] i = 28 -> r > 240 /\ g > 240 /\ b > 230
      [] i = 29 -> g > 200 /\ r < 120 /\ b < 120
      [] i = 30 -> g > 100 /\ g < 170 /\ r > 40 /\ r < 130 /\ b > 40 /\ b < 130
      [] i = 31 -> b > 120 /\ g > 120 /\ r < 100
      [] i = 32 -> g > 100 /\ r > 80 /\ r < 150 /\ b < 100
      [] i = 33 -> b > 100 /\ b < 160 /\ g < 80 /\ r < 80
      [] i = 34 -> b > 180 /\ g > 80 /\ g < 150 /\ r > 50 /\ r < 130
      [] i = 35 -> b > 190 /\ g > 110 /\ g < 170 /\ r > 80 /\ r < 160
      [] i = 36 -> b > 210 /\ g > 190 /\ r > 160 /\ r < 220
      [] i = 37 -> b > 210 /\ g > 190 /\ r > 140 /\ r < 200
      [] i = 38 -> b > 160 /\ g > 160 /\ r < 140
      [] i = 39 -> b > 160 /\ r > 160 /\ g < 100
      [] i = 40 -> b > 140 /\ r > 140 /\ AbsInt(b - r) < 70 /\ g < 130
      [] i = 41 -> b > 130 /\ g < 110 /\ r > 70 /\ r < 140
      [] i = 42 -> b > 190 /\ r > 190 /\ g > 100 /\ g < 190
      [] i = 43 -> b > 160 /\ r > 230 /\ g > 100 /\ g < 170
      [] i = 44 -> b > 160 /\ r > 220 /\ g > 130 /\ g < 210
      [] i = 45 -> b > 220 /\ r > 240 /\ g > 190
      [] i = 46 -> b > 160 /\ r > 220 /\ g > 150 /\ g < 200
      [] i = 47 -> b > 210 /\ r > 240 /\ g > 190
      [] i = 48 -> r > 180 /\ g < 110 /\ b < 100 /\ r - g > 60
      [] i = 49 -> r > 190 /\ g > 190 /\ b > 190 /\ r < 240
      [] OTHER -> FALSE

\* lines 518-520: the first rule that holds, 0 when none does
RECURSIVE FirstRuleFrom(_, _, _, _)
FirstRuleFrom(i, b, g, r) ==
    IF i > Len(color_checks) THEN 0
    ELSE IF check_func(i, b, g, r) THEN i
    ELSE FirstRuleFrom(i + 1, b, g, r)

\* the last rule that holds, 0 when none does
LastRule(b, g, r) ==
    LET holding == {i \in 1..Len(color_checks) : check_func(i, b, g, r)}
    IN  IF holding = {} THEN 0 ELSE CHOOSE i \in holding : \A j \in holding : j <= i

FirstRule(b, g, r) == FirstRuleFrom(1, b, g, r)

unknown == <<"u", "n", "k", "n", "o", "w", "n">>

\* lines 523-533: the fallback palette, in the order of the dict
palette ==
    << <<red, <<0, 0, 255>> >>,
       <<color_checks[9], <<0, 255, 0>> >>,
       <<blue, <<255, 0, 0>> >>,
       <<color_checks[11], <<0, 255, 255>> >>,
       <<color_checks[12], <<255, 255, 0>> >>,
       <<color_checks[13], <<255, 0, 255>> >>,
       <<white, <<255, 255, 255>> >>,
       <<color_checks[5], <<0, 0, 0>> >>,
       <<grey, <<128, 128, 128>> >> >>

\* line 538
Dist(b, g, r, p) ==
    (b - p[1]) * (b - p[1]) + (g - p[2]) * (g - p[2]) + (r - p[3]) * (r - p[3])

\* lines 535-541: min_dist is float("inf") (here -1) and best_name "unknown"
\* before the loop; an entry replaces them when it is strictly closer
RECURSIVE NearestFrom(_, _, _, _, _)
NearestFrom(i, b, g, r, best) ==
    IF i > Len(palette) THEN best
    ELSE LET dist == Dist(b, g, r, palette[i][2])
         IN  NearestFrom(i + 1, b, g, r,
                 IF best.min_dist = -1 \/ dist < best.min_dist
                 THEN [min_dist |-> dist, best_name |-> palette[i][1]]
                 ELSE best)

bgr_to_color_name(bgr) ==
    LET b == bgr[1]
        g == bgr[2]
        r == bgr[3]
        rule == FirstRule(b, g, r)
    IN  IF rule # 0 THEN color_checks[rule]
        ELSE NearestFrom(1, b, g, r, [min_dist |-> -1, best_name |-> unknown]).best_name

(***************************************************************************)
(* The classifier on its own: a sample is drawn and classified, again and  *)
(* again.                                                                  *)
(***************************************************************************)
\* channel values on both sides of the thresholds of the rules
BgrLevels == {0, 45, 60, 95, 105, 125, 150, 170, 195, 210, 225, 238, 255}

BgrSamples == BgrLevels \X BgrLevels \X BgrLevels

InitColor ==
    /\ products = <<>>
    /\ adj_pc = "idle"
    /\ colors_to_adjust = <<>>
    /\ all_products = <<>>
    /\ average_percentages = <<>>
    /\ adj_idx = 1
    /\ adj_tags = <<>>
    /\ updated_product_count = 0
    /\ adj_written = <<>>
    /\ adj_runs = 0
    /\ search_pc = "idle"
    /\ search_in = <<>>
    /\ search_out = <<>>
    /\ sim_pc = "idle"
    /\ sim_in = <<>>
    /\ sim_out = <<>>
    /\ vis_pc = "idle"
    /\ vis_in = <<>>
    /\ vis_out = <<>>
    /\ bgr_in \in BgrSamples
    /\ bgr_out = <<>>
    /\ MalIdle
    /\ RetagIdle

BgrToColorName ==
    /\ Len(bgr_out) < MaxCalls
    /\ bgr_out' = Append(bgr_out, bgr_to_color_name(bgr_in))
    /\ UNCHANGED <<products, adjVars, searchVars, simVars, visVars, bgr_in, malVars,
                   scrapeVars, retagVars>>

NextColor == BgrToColorName

SpecColor == InitColor /\ [][NextColor]_vars

Vocabulary == Range(color_checks) \cup {palette[p][1] : p \in 1..Len(palette)}

RuleHolds(i) == check_func(i, bgr_in[1], bgr_in[2], bgr_in[3])

\* C21: every call of _bgr_to_color_name on a sample returns the name of the
\* first rule of the ordered list that holds for it and, when no rule holds,
\* a fallback palette color at the least squared Euclidean distance; the name
\* is a vocabulary name, not "unknown", and all calls on the sample agree.
ClassifiedByRulesThenNearest ==
    \A k \in 1..Len(bgr_out) :
        LET name == bgr_out[k]
            Rules == 1..Len(color_checks)
        IN  /\ IF \E i \in Rules : RuleHolds(i)
               THEN \E i \in Rules :
                        /\ RuleHolds(i)
                        /\ \A j \in 1..(i - 1) : ~RuleHolds(j)
                        /\ name = color_checks[i]
               ELSE \E p \in 1..Len(palette) :
                        /\ name = palette[p][1]
                        /\ \A q \in 1..Len(palette) :
                               Dist(bgr_in[1], bgr_in[2], bgr_in[3], palette[p][2])
                                   <= Dist(bgr_in[1], bgr_in[2], bgr_in[3], palette[q][2])
            /\ name \in Vocabulary
            /\ name # unknown
            /\ \A k2 \in 1..Len(bgr_out) : bgr_out[k2] = name

\* a sample no rule holds for was classified twice
FallbackWitness ==
    /\ Len(bgr_out) >= 2
    /\ \A i \in 1..Len(color_checks) : ~RuleHolds(i)

(***************************************************************************)
(* The palette and the clusters it comes from.                             *)
(***************************************************************************)
\* the clusters of the image that hold at least one pixel
NonEmptyClusters(image) == {i \in 1..MaxClusters : CountOf(image.labels, i) > 0}

\* the share of cluster i among the pixels
ShareOf(image, i) == Rat(CountOf(image.labels, i) * 100, Len(image.labels))

\* C27: the palette returned by _get_color_percentages has one entry for each
\* cluster that holds a pixel, and the entries are, counted with repetitions,
\* the pairs of the name of center i with the share of the pixels labelled i.
PaletteEntryIsOwnCluster ==
    vis_pc = "palette" =>
        LET image == vis_in.image
            Own == NonEmptyClusters(image)
        IN  /\ Len(vis_out) = Cardinality(Own)
            /\ \A name \in VisionColors, i \in Own :
                   Cardinality({k \in 1..Len(vis_out) :
                                   vis_out[k] = <<name, ShareOf(image, i)>>})
                   = Cardinality({j \in Own : /\ image.centers[j] = name
                                               /\ ShareOf(image, j) = ShareOf(image, i)})

(***************************************************************************)
(* adjust_color_percentages on a stored catalog: the table holds rows that *)
(* earlier scrapes inserted, among them rows whose map has the spelling    *)
(* "gray" that the function provides for.                                  *)
(***************************************************************************)
\* a stored row with the colors of pairs, <<name, percentage>>, and their tags
StoredRow(pairs) ==
    [tags   |-> <<type_a>> \o [i \in 1..Len(pairs) |-> ColorTag(pairs[i][1])],
     colors |-> [n \in {pairs[i][1] : i \in 1..Len(pairs)} |->
                    RInt(pairs[CHOOSE i \in 1..Len(pairs) : pairs[i][1] = n][2])]]

\* valid maps: the percentages are not negative and sum to 100
StoredRows ==
    { StoredRow(<< <<grey, 50>>, <<white, 50>> >>),
      StoredRow(<< <<grey, 100>> >>),
      StoredRow(<< <<white, 100>> >>),
      StoredRow(<< <<gray, 50>>, <<red, 50>> >>),
      StoredRow(<< <<grey, 30>>, <<gray, 30>>, <<red, 40>> >>),
      StoredRow(<< <<grey, 50>>, <<white, 30>>, <<red, 20>> >>),
      StoredRow(<< <<red, 100>> >>) }

\* the endpoint passes ["grey", "white"]; the function takes any list
StoredTargets == { <<grey, white>>, <<gray>> }

InitStored ==
    /\ products \in Tables(StoredRows, MaxStored)
    /\ adj_pc = "idle"
    /\ colors_to_adjust = <<>>
    /\ all_products = <<>>
    /\ average_percentages = <<>>
    /\ adj_idx = 1
    /\ adj_tags = <<>>
    /\ updated_product_count = 0
    /\ adj_written = <<>>
    /\ adj_runs = 0
    /\ search_pc = "idle"
    /\ search_in = <<>>
    /\ search_out = <<>>
    /\ sim_pc = "idle"
    /\ sim_in = <<>>
    /\ sim_out = <<>>
    /\ vis_pc = "idle"
    /\ vis_in = <<>>
    /\ vis_out = <<>>
    /\ ExtIdle

AdjustStored == AdjustBegin(StoredTargets)

NextStored ==
    \/ AdjustStored
    \/ AdjustSkip
    \/ AdjustRaise
    \/ AdjustUpdateColors
    \/ AdjustUpdateTags
    \/ AdjustReturn

SpecStored == InitStored /\ [][NextStored]_vars

(***************************************************************************)
(* adjust on a stored catalog: properties.                                 *)
(***************************************************************************)
\* grey and gray are one logical color
Logical(name) == IF name = gray THEN grey ELSE name

\* the keys of a map that spell the logical color of a target
SpellingsIn(colors, target) == {k \in DOMAIN colors : Logical(k) = Logical(target)}

\* the rows that adjust read whose map holds the logical color of a target
HoldersOf(target) ==
    {id \in 1..Len(all_products) : SpellingsIn(all_products[id].colors, target) # {}}

RECURSIVE SumOfHolders(_, _)
SumOfHolders(ids, target) ==
    IF ids = {} THEN RZero
    ELSE LET id == CHOOSE x \in ids : TRUE
         IN  RAdd(SumOver(all_products[id].colors, SpellingsIn(all_products[id].colors, target)),
                  SumOfHolders(ids \ {id}, target))

\* C24: the average adjust uses for a target color is the mean, over the rows
\* whose map holds the color under either spelling, of what the row holds of it
\* (both values of a row that holds both spellings), and 0 when no row holds it.
AverageIsMeanOverHolders ==
    AdjustRunning =>
        \A t \in Range(colors_to_adjust) :
            average_percentages[t] =
                IF HoldersOf(t) = {} THEN RZero
                ELSE RDiv(SumOfHolders(HoldersOf(t), t), RInt(Cardinality(HoldersOf(t))))

\* C29: adjust on a catalog of valid rows never leaves by an exception: no run
\* ends raised, with later rows left unadjusted.
AdjustRunsToCompletion == adj_pc # "raised"

\* lines 573-619 for one row: the state of the second pass after its loop on
\* the target colors
AdjustedTargets(row, targets, averages) ==
    AdjustKeys([product_changed |-> FALSE, new_colors_data |-> EmptyMap,
                tags_modified |-> FALSE, current_tags_list |-> row.tags,
                keys_to_adjust |-> {}],
               row.colors, averages, KeyPairs(targets, row.colors))

\* lines 573-651 for one row: the new map before the final renormalization
RescaledColors(row, targets, averages) ==
    RescaleOthers(AdjustedTargets(row, targets, averages), row.colors)

\* C25: for the row that pass 2 is changing, before the final renormalization,
\* every target color of the row that is retained has the value the loop on the
\* target colors gave it, and every other color has its original value times
\* remainingBudget / preAdjustmentNonTargetSum, where remainingBudget is 100
\* minus the retained target values, at least 0, and the sum is over the
\* non-target colors only; the other colors are 0 when that sum is 0.
NonTargetsScaledToBudget ==
    (InPassTwo /\ CurrentDecision.product_changed) =>
        LET row      == all_products[adj_idx]
            original == row.colors
            targets  == (DOMAIN original) \cap TargetKeys(colors_to_adjust)
            others   == (DOMAIN original) \ targets
            retained == AdjustedTargets(row, colors_to_adjust, average_percentages).new_colors_data
            before   == RescaledColors(row, colors_to_adjust, average_percentages)
            left     == RSub(RHundred, SumValues(retained))
            remainingBudget == IF RLt(left, RZero) THEN RZero ELSE left
            preAdjustmentNonTargetSum == SumOver(original, others)
        IN  /\ DOMAIN before = (DOMAIN retained) \cup others
            /\ \A c \in DOMAIN retained : before[c] = retained[c]
            /\ \A c \in others :
                   before[c] = IF RLt(RZero, preAdjustmentNonTargetSum)
                               THEN RMul(original[c],
                                         RDiv(remainingBudget, preAdjustmentNonTargetSum))
                               ELSE RZero

\* a row that adjust read holds a target color whose distance from the average
\* is outside the dead zone
OutsideDeadZone(id) ==
    LET colors == all_products[id].colors
        pairs  == KeyPairs(colors_to_adjust, colors)
    IN  \E i \in 1..Len(pairs) :
            ~RLt(RAbs(RSub(colors[pairs[i][2]], Get(average_percentages, pairs[i][1]))),
                 Tolerance)

\* C26: when adjust has ended, a row without a target color outside the dead
\* zone is stored as it was read and was not written; every other row had its
\* color map written, and its tag list differs from the one read only by
\* removed tags; and the count of updated products is the number of rows written.
AdjustWritesExactlyTheChanged ==
    adj_pc \in {"returned", "raised"} =>
        /\ \A id \in 1..Len(all_products) :
               IF OutsideDeadZone(id)
               THEN /\ id \in DOMAIN adj_written
                    /\ products[id].colors = adj_written[id]
                    /\ Range(products[id].tags) \subseteq Range(all_products[id].tags)
               ELSE /\ id \notin DOMAIN adj_written
                    /\ products[id] = all_products[id]
        /\ adj_pc = "returned"
        /\ updated_product_count = Cardinality(DOMAIN adj_written)

(***************************************************************************)
(* Rows whose colors_json is not the text of a map of percentages.  The    *)
(* column is TEXT DEFAULT '{}' without NOT NULL (database.py line 75), and *)
(* the three readers decode it with                                        *)
(*     json.loads(colors_json) if colors_json else {}                      *)
(* A stored value is [kind, map]: kind "NULL" (SQL NULL), "empty" (''),    *)
(* "null" (the JSON text null), "list" (the JSON text []) or "object" (a   *)
(* JSON object, map holding its members).  A member that is JSON null has  *)
(* the value NonePercentage.                                               *)
(***************************************************************************)
NonePercentage == <<0, 0>>

\* the Python value read from a stored colors_json: [type, map]
LoadColors(colors_json) ==
    CASE colors_json.kind \in {"NULL", "empty"} -> [type |-> "dict", map |-> EmptyMap]
      [] colors_json.kind = "null"   -> [type |-> "NoneType", map |-> EmptyMap]
      [] colors_json.kind = "list"   -> [type |-> "list", map |-> EmptyMap]
      [] colors_json.kind = "object" -> [type |-> "dict", map |-> colors_json.map]

\* the rows as a reader holds them: the tags and the members of the value read
\* (none for a value that is not a dict)
LoadedRows(table) ==
    [id \in 1..Len(table) |->
        [tags |-> table[id].tags, colors |-> LoadColors(table[id].colors_json).map]]

\* not value: None, [] and {} are false
Falsy(value) == value.type = "NoneType" \/ value.map = EmptyMap

\* search, lines 338-348: colors_data.get(color.lower(), 0.0) is summed over the
\* listed colors for every row of the results; .get fails on a value that is
\* not a dict and the sum fails on None
SearchSortRaises(table, tag_list, sort_by_colors) ==
    LET results == search_products_by_tags(LoadedRows(table), tag_list, <<>>, FALSE)
    IN  /\ sort_by_colors # <<>>
        /\ results # <<>>
        /\ \E i \in 1..Len(results) :
              LET value == LoadColors(table[results[i]].colors_json)
              IN  \/ value.type # "dict"
                  \/ \E j \in 1..Len(sort_by_colors) :
                        /\ Lower(sort_by_colors[j]) \in DOMAIN value.map
                        /\ value.map[Lower(sort_by_colors[j])] = NonePercentage

\* calculate_color_similarity, lines 1173-1184, on two values read: .keys()
\* fails on a value that is not a dict, the subtraction fails on None
SimilarityRaises(colors1, colors2) ==
    /\ ~Falsy(colors1)
    /\ ~Falsy(colors2)
    /\ \/ colors1.type # "dict"
       \/ colors2.type # "dict"
       \/ \E c \in DOMAIN colors1.map : colors1.map[c] = NonePercentage
       \/ \E c \in DOMAIN colors2.map : colors2.map[c] = NonePercentage

\* find_similar_products_by_color, lines 1277-1283: the score of every candidate
FindSimilarRaises(table, product_id, same_brand) ==
    /\ product_id \in 1..Len(table)
    /\ LET rows == LoadedRows(table)
           ref_type_tags  == SelectSeq(rows[product_id].tags, IsTypeTag)
           ref_brand_tags == SelectSeq(rows[product_id].tags, IsCompanyTag)
       IN  /\ ~HasNoTypeTags(ref_type_tags)
           /\ \E id \in 1..Len(rows) :
                 /\ IsCandidate(rows[id], ref_type_tags, ref_brand_tags, same_brand)
                 /\ SimilarityRaises(LoadColors(table[product_id].colors_json),
                                     LoadColors(table[id].colors_json))

\* adjust, first pass, lines 547-557: <<total, count>> of a target color;
\* a member that is None is not counted
RECURSIVE PassOneLoaded(_, _)
PassOneLoaded(rows, target_color) ==
    IF rows = <<>> THEN <<RZero, 0>>
    ELSE LET rest == PassOneLoaded(Tail(rows), target_color)
             key  == FoundKey(target_color, Head(rows).colors)
         IN  IF key # NoKey /\ Head(rows).colors[key] # NonePercentage
             THEN <<RAdd(rest[1], Head(rows).colors[key]), rest[2] + 1>>
             ELSE rest

\* lines 559-566
AveragesLoaded(rows, targets) ==
    [t \in Range(targets) |->
        LET tc == PassOneLoaded(rows, t)
        IN  IF tc[2] > 0 THEN RDiv(tc[1], RInt(tc[2])) ELSE RZero]

\* adjust, second pass, lines 592-628, on one row: abs(old_value - average_value)
\* fails on a target color that is None, and the sum of the other colors fails
\* on None once the row is marked changed
PassTwoRaises(row, targets, averages) ==
    LET pairs == KeyPairs(targets, row.colors)
    IN  \/ \E i \in 1..Len(pairs) : row.colors[pairs[i][2]] = NonePercentage
        \/ /\ \E c \in DOMAIN row.colors : row.colors[c] = NonePercentage
           /\ AdjustedTargets(row, targets, averages).product_changed

\* adjust, first pass: "target_color in colors_data" (line 550) fails on None
PassOneRaises(table) ==
    \E id \in 1..Len(table) : LoadColors(table[id].colors_json).type = "NoneType"

HasNone(colors) == \E c \in DOMAIN colors : colors[c] = NonePercentage

\* adjust, second pass, lines 573-667, from row id on: the table as the pass
\* leaves it, and whether an exception ended it
RECURSIVE PassTwoOnStored(_, _, _, _)
PassTwoOnStored(table, id, targets, averages) ==
    IF id > Len(table) THEN [table |-> table, raised |-> FALSE]
    ELSE LET row == LoadedRows(table)[id]
         IN  IF PassTwoRaises(row, targets, averages)
             THEN [table |-> table, raised |-> TRUE]
             ELSE IF HasNone(row.colors)
             THEN PassTwoOnStored(table, id + 1, targets, averages)
             ELSE LET d == AdjustProduct(row, targets, averages)
                  IN  IF d.raises THEN [table |-> table, raised |-> TRUE]
                      ELSE IF ~d.product_changed
                      THEN PassTwoOnStored(table, id + 1, targets, averages)
                      ELSE PassTwoOnStored(
                               [table EXCEPT ![id] =
                                   [tags |-> d.new_tags,
                                    colors_json |-> [kind |-> "object",
                                                     map |-> d.new_colors_data]]],
                               id + 1, targets, averages)

\* adjust_color_percentages on the stored table
AdjustOnStored(table, targets) ==
    LET averages == AveragesLoaded(LoadedRows(table), targets)
    IN  IF PassOneRaises(table) THEN [table |-> table, raised |-> TRUE]
        ELSE IF NothingToAdjust(averages) THEN [table |-> table, raised |-> FALSE]
        ELSE PassTwoOnStored(table, 1, targets, averages)

(***************************************************************************)
(* A catalog with such rows: one search, similarity search or adjust is    *)
(* called on it.  In this specification a row of products holds the        *)
(* stored colors_json, not the map decoded from it.                        *)
(***************************************************************************)
UndecodedRow(kind, pairs) ==
    [tags |-> StoredRow(pairs).tags, colors_json |-> [kind |-> kind, map |-> StoredRow(pairs).colors]]

\* a map with a member that is JSON null: {"grey": null, "red": 100}
NullMemberRow ==
    [tags |-> <<type_a, ColorTag(grey), ColorTag(red)>>,
     colors_json |-> [kind |-> "object",
                      map |-> [n \in {grey, red} |->
                                  IF n = grey THEN NonePercentage ELSE RHundred]]]

UndecodedRows ==
    { UndecodedRow("NULL", <<>>),
      UndecodedRow("empty", <<>>),
      UndecodedRow("null", <<>>),
      UndecodedRow("list", <<>>),
      UndecodedRow("object", <<>>),
      UndecodedRow("object", << <<grey, 80>>, <<red, 20>> >>),
      UndecodedRow("object", << <<grey, 40>>, <<red, 60>> >>),
      NullMemberRow }

UndecodedSortLists == { <<>>, <<red>>, <<grey>> }

InitUndecoded ==
    /\ products \in Tables(UndecodedRows, MaxProducts)
    /\ adj_pc = "idle"
    /\ colors_to_adjust = <<>>
    /\ all_products = <<>>
    /\ average_percentages = <<>>
    /\ adj_idx = 1
    /\ adj_tags = <<>>
    /\ updated_product_count = 0
    /\ adj_written = <<>>
    /\ adj_runs = 0
    /\ search_pc = "idle"
    /\ search_in = <<>>
    /\ search_out = <<>>
    /\ sim_pc = "idle"
    /\ sim_in = <<>>
    /\ sim_out = <<>>
    /\ vis_pc = "idle"
    /\ vis_in = <<>>
    /\ vis_out = <<>>
    /\ BgrIdle
    /\ MalIdle
    /\ RetagIdle

\* search_products_by_tags(["type_a"], sort_by_colors)
SearchUndecoded ==
    /\ mal_pc = "idle"
    /\ \E sort_by_colors \in UndecodedSortLists :
          LET raises == SearchSortRaises(products, <<type_a>>, sort_by_colors)
          IN  /\ mal_in' = [op |-> "search", table |-> products,
                            sort_by_colors |-> sort_by_colors, product_id |-> 0]
              /\ mal_pc' = IF raises THEN "raised" ELSE "done"
              /\ mal_out' = IF raises THEN <<>>
                            ELSE search_products_by_tags(LoadedRows(products), <<type_a>>,
                                                         sort_by_colors, FALSE)
    /\ UNCHANGED <<products, adjVars, searchVars, simVars, visVars, bgrVars,
                   scrapeVars, retagVars>>

\* find_similar_products_by_color(product_id, limit)
SimilarUndecoded ==
    /\ mal_pc = "idle"
    /\ \E product_id \in 1..Len(products) :
          LET raises == FindSimilarRaises(products, product_id, FALSE)
          IN  /\ mal_in' = [op |-> "similar", table |-> products,
                            sort_by_colors |-> <<>>, product_id |-> product_id]
              /\ mal_pc' = IF raises THEN "raised" ELSE "done"
              /\ mal_out' = IF raises THEN <<>>
                            ELSE find_similar_products_by_color(LoadedRows(products),
                                                                product_id, MaxLimit, FALSE)
    /\ UNCHANGED <<products, adjVars, searchVars, simVars, visVars, bgrVars,
                   scrapeVars, retagVars>>

\* adjust_color_percentages(["grey", "white"])
AdjustUndecoded ==
    /\ mal_pc = "idle"
    /\ LET result == AdjustOnStored(products, <<grey, white>>)
       IN  /\ mal_in' = [op |-> "adjust", table |-> products,
                         sort_by_colors |-> <<>>, product_id |-> 0]
           /\ mal_pc' = IF result.raised THEN "raised" ELSE "done"
           /\ mal_out' = <<>>
           /\ products' = result.table
    /\ UNCHANGED <<adjVars, searchVars, simVars, visVars, bgrVars,
                   scrapeVars, retagVars>>

NextUndecoded == SearchUndecoded \/ SimilarUndecoded \/ AdjustUndecoded

SpecUndecoded == InitUndecoded /\ [][NextUndecoded]_vars

\* colors_json holds the text of a map of percentages
WellFormed(colors_json) == colors_json.kind = "object" /\ ~HasNone(colors_json.map)

\* the rows with an empty map in the place of every value that is not one
AsEmptyMaps(table) ==
    [id \in 1..Len(table) |->
        [tags   |-> table[id].tags,
         colors |-> IF WellFormed(table[id].colors_json)
                    THEN table[id].colors_json.map ELSE EmptyMap]]

\* C23: a call of search (with or without color sorting), of similarity search
\* or of adjust on a table with rows whose color data is missing or malformed
\* does not raise; search and similarity search return what they return when
\* those rows hold an empty map, and adjust leaves those rows as they are.
MalformedColorsAreEmptyMaps ==
    mal_pc # "idle" =>
        /\ mal_pc = "done"
        /\ mal_in.op = "search" =>
              mal_out = search_products_by_tags(AsEmptyMaps(mal_in.table), <<type_a>>,
                                                mal_in.sort_by_colors, FALSE)
        /\ mal_in.op = "similar" =>
              mal_out = find_similar_products_by_color(AsEmptyMaps(mal_in.table),
                                                       mal_in.product_id, MaxLimit, FALSE)
        /\ mal_in.op = "adjust" =>
              \A id \in 1..Len(mal_in.table) :
                  ~WellFormed(mal_in.table[id].colors_json) => products[id] = mal_in.table[id]

(***************************************************************************)
(* Images that cannot be had, and re-tagging (main.py 570-590, 885-944).   *)
(* What becomes of an image is "ok", "save_failed" (save_image_locally     *)
(* returned None), "fetch_failed" (requests.get or raise_for_status raised *)
(* in _fetch_image_array) or "decode_failed" (cv2.imdecode returned None). *)
(***************************************************************************)
\* generate_tags_for_image that returns an empty palette for an image it cannot have
generate_tags_or_empty(outcome, clusters, brands) ==
    IF outcome # "ok"
    THEN [raised |-> FALSE, tags |-> <<>>, colors |-> EmptyMap]
    ELSE [raised |-> FALSE,
          tags   |-> generate_tags_for_image(clusters, brands).tags,
          colors |-> generate_tags_for_image(clusters, brands).colors]

\* vision.py 335-347 and 653-702: generate_tags_for_image with its try/except,
\* which raises again what _fetch_image_array raised
generate_tags_or_raise(outcome, clusters, brands) ==
    IF outcome # "ok"
    THEN [raised |-> TRUE, tags |-> <<>>, colors |-> EmptyMap]
    ELSE [raised |-> FALSE,
          tags   |-> generate_tags_for_image(clusters, brands).tags,
          colors |-> generate_tags_for_image(clusters, brands).colors]

\* main.py 555-590: one album of the scrape loop
ScrapeLoopAlbum(Palettes, ClothingLists, BrandLists, Outcomes) ==
    /\ Len(scrape_log) < MaxAlbums
    /\ Len(products) < MaxProducts
    /\ \E outcome \in Outcomes, clusters \in Palettes, clothing_tags \in ClothingLists,
          brands \in BrandLists :
          LET g == generate_tags_or_raise(outcome, clusters, brands)
          IN  /\ scrape_log' = Append(scrape_log, outcome)
              /\ IF outcome = "save_failed" \/ g.raised
                 THEN /\ failed' = failed + 1
                      /\ UNCHANGED <<products, inserted>>
                 ELSE /\ \E all_tags \in Orderings(Range(clothing_tags) \cup Range(g.tags)) :
                            insert_product(all_tags, g.colors)
                      /\ inserted' = inserted + 1
                      /\ UNCHANGED failed

\* database.py 1013-1035: get_all_product_images, the existing tags of every row
get_all_product_images == [id \in 1..Len(products) |-> products[id].tags]

\* main.py 899-905
RetagBegin ==
    /\ retag_pc = "idle"
    /\ retag_products' = get_all_product_images
    /\ retag_pc' = "loop"
    /\ retag_idx' = 1
    /\ UNCHANGED <<products, adjVars, searchVars, simVars, visVars, bgrVars, malVars,
                   scrapeVars, retag_log, retag_updated, retag_failed, retag_written>>

\* the running adjust has read row id and has not finished writing it
AdjustHoldsSnapshotOf(id) ==
    /\ adj_pc \in {"pass2", "tags"}
    /\ id <= Len(all_products)
    /\ adj_idx <= id

\* main.py 905-927: one product of the re-tag loop
RetagProduct(Palettes, BrandLists, Outcomes) ==
    /\ retag_pc = "loop"
    /\ retag_idx <= Len(retag_products)
    /\ \E outcome \in Outcomes, clusters \in Palettes, brands \in BrandLists :
          LET g == generate_tags_or_raise(outcome, clusters, brands)
              existing_tags  == retag_products[retag_idx]
              preserved_tags == SelectSeq(existing_tags, IsTypeTag)
              final_tags     == Dedupe(preserved_tags \o g.tags)
              row            == [tags |-> final_tags, colors |-> g.colors]
          IN  /\ retag_log' = Append(retag_log, outcome)
              /\ IF g.raised
                 THEN /\ retag_failed' = retag_failed + 1
                      /\ UNCHANGED <<products, retag_updated, retag_written>>
                 ELSE /\ products' = [products EXCEPT ![retag_idx] = row]
                      /\ retag_updated' = retag_updated + 1
                      /\ retag_written' = IF AdjustHoldsSnapshotOf(retag_idx)
                                          THEN Put(retag_written, retag_idx,
                                                   [row |-> row, run |-> adj_runs])
                                          ELSE retag_written
                      /\ UNCHANGED retag_failed
    /\ retag_idx' = retag_idx + 1
    /\ UNCHANGED <<adjVars, searchVars, simVars, visVars, bgrVars, malVars, scrapeVars,
                   retag_pc, retag_products>>

\* main.py 933-940
RetagReturn ==
    /\ retag_pc = "loop"
    /\ retag_idx > Len(retag_products)
    /\ retag_pc' = "returned"
    /\ UNCHANGED <<products, adjVars, searchVars, simVars, visVars, bgrVars, malVars,
                   scrapeVars, retag_products, retag_idx, retag_log, retag_updated,
                   retag_failed, retag_written>>

(***************************************************************************)
(* The catalog under scraping and re-tagging: the table holds rows of      *)
(* earlier scrapes, among them rows with a tag of an earlier tag generator *)
(* (style_<attribute>); an administrator scrapes and calls                 *)
(* POST /api/colors/retag.                                                 *)
(***************************************************************************)
style_casual == <<"s", "t", "y", "l", "e", "_", "c", "a", "s", "u", "a", "l">>

RetagPalettes ==
    { << <<red, 4096>> >>,
      << <<grey, 2048>>, <<red, 2048>> >> }

RetagClothing == { <<type_a>> }

RetagBrands == { <<>>, <<brand_n>> }

ImageOutcomes == {"ok", "save_failed", "fetch_failed", "decode_failed"}

RetagRows ==
    {ScrapedRow(p, c, <<>>) : p \in RetagPalettes, c \in RetagClothing}
    \cup {ScrapedRow(<< <<red, 4096>> >>, <<type_a>>, <<brand_n>>)}
    \cup {[tags |-> <<type_a, style_casual, ColorTag(grey)>>,
           colors |-> StoredRow(<< <<grey, 100>> >>).colors]}

InitRetag ==
    /\ products \in Tables(RetagRows, MaxProducts)
    /\ adj_pc = "idle"
    /\ colors_to_adjust = <<>>
    /\ all_products = <<>>
    /\ average_percentages = <<>>
    /\ adj_idx = 1
    /\ adj_tags = <<>>
    /\ updated_product_count = 0
    /\ adj_written = <<>>
    /\ adj_runs = 0
    /\ search_pc = "idle"
    /\ search_in = <<>>
    /\ search_out = <<>>
    /\ sim_pc = "idle"
    /\ sim_in = <<>>
    /\ sim_out = <<>>
    /\ vis_pc = "idle"
    /\ vis_in = <<>>
    /\ vis_out = <<>>
    /\ ExtIdle

ScrapeLoopStep ==
    /\ ScrapeLoopAlbum(RetagPalettes, RetagClothing, {<<>>}, ImageOutcomes)
    /\ UNCHANGED <<adjVars, searchVars, simVars, visVars, bgrVars, malVars, retagVars>>

RetagStep == RetagProduct(RetagPalettes, RetagBrands, ImageOutcomes \ {"save_failed"})

NextRetag ==
    \/ ScrapeLoopStep
    \/ RetagBegin
    \/ RetagStep
    \/ RetagReturn

SpecRetag == InitRetag /\ [][NextRetag]_vars

(***************************************************************************)
(* Scrape loop and re-tag loop: properties.                                *)
(***************************************************************************)
Last(s) == s[Len(s)]

\* the step processed an album, or a product, whose image could not be had
ScrapeStepFailed == scrape_log' # scrape_log /\ Last(scrape_log') # "ok"

RetagStepFailed == retag_log' # retag_log /\ Last(retag_log') # "ok"

\* C22: a step of the scrape loop on an album whose cover cannot be fetched or
\* decoded counts the album as failed and inserts nothing; a step of the re-tag
\* loop on such a product counts it as failed, leaves every stored row as it
\* is, and the loop goes on with the next product.
FailedImageIsCountedNotStored ==
    [][ /\ ScrapeStepFailed =>
              /\ products' = products
              /\ failed' = failed + 1
              /\ inserted' = inserted
        /\ RetagStepFailed =>
              /\ products' = products
              /\ retag_failed' = retag_failed + 1
              /\ retag_updated' = retag_updated
              /\ retag_idx' = retag_idx + 1
              /\ retag_pc' = "loop" ]_vars

\* C22 witness: the scrape loop has failed on an album and inserted a later
\* one, and the re-tag loop has failed on the first product and updated the
\* second.
FailedThenContinuedWitness ==
    /\ Len(scrape_log) = 2
    /\ scrape_log[1] # "ok"
    /\ scrape_log[2] = "ok"
    /\ inserted = 1
    /\ failed = 1
    /\ Len(retag_log) = 2
    /\ retag_log[1] # "ok"
    /\ retag_log[2] = "ok"
    /\ retag_failed = 1
    /\ retag_updated = 1

IsColorTag(t) == StartsWith(t, color_)

\* the step re-tagged a product
RetagStepUpdated == retag_log' # retag_log /\ Last(retag_log') = "ok"

\* C28: a step of the re-tag loop that updates a product keeps every tag of the
\* product that is neither a color_ nor a company_ tag, adds no such tag, leaves
\* the color tags of the keys of the new color map, and leaves no tag twice.
RetagKeepsOtherTags ==
    [][ RetagStepUpdated =>
            LET old == products[retag_idx].tags
                new == products'[retag_idx].tags
                Other(tags) == {t \in Range(tags) : ~IsColorTag(t) /\ ~IsCompanyTag(t)}
            IN  /\ Other(new) = Other(old)
                /\ {t \in Range(new) : IsColorTag(t)}
                       = {ColorTag(k) : k \in DOMAIN products'[retag_idx].colors}
                /\ NoDuplicates(new) ]_vars

(***************************************************************************)
(* Re-tagging while the percentages are adjusted: both endpoints are       *)
(* synchronous handlers that the server runs on worker threads, and every  *)
(* UPDATE is a transaction of its own, so the steps of the two loops       *)
(* interleave.                                                             *)
(***************************************************************************)
RaceRows ==
    { StoredRow(<< <<grey, 100>> >>),
      StoredRow(<< <<grey, 50>>, <<white, 50>> >>),
      StoredRow(<< <<white, 100>> >>),
      StoredRow(<< <<grey, 50>>, <<red, 50>> >>) }

\* main.py 865: the endpoint passes ["grey", "white"]
RaceTargets == { <<grey, white>> }

InitRace ==
    /\ products \in Tables(RaceRows, MaxStored)
    /\ adj_pc = "idle"
    /\ colors_to_adjust = <<>>
    /\ all_products = <<>>
    /\ average_percentages = <<>>
    /\ adj_idx = 1
    /\ adj_tags = <<>>
    /\ updated_product_count = 0
    /\ adj_written = <<>>
    /\ adj_runs = 0
    /\ search_pc = "idle"
    /\ search_in = <<>>
    /\ search_out = <<>>
    /\ sim_pc = "idle"
    /\ sim_in = <<>>
    /\ sim_out = <<>>
    /\ vis_pc = "idle"
    /\ vis_in = <<>>
    /\ vis_out = <<>>
    /\ ExtIdle

AdjustRace == AdjustBegin(RaceTargets)

RetagRace == RetagProduct(RetagPalettes, {<<>>}, {"ok", "fetch_failed"})

NextRace ==
    \/ AdjustRace
    \/ AdjustSkip
    \/ AdjustRaise
    \/ AdjustUpdateColors
    \/ AdjustUpdateTags
    \/ AdjustReturn
    \/ RetagBegin
    \/ RetagRace
    \/ RetagReturn

SpecRace == InitRace /\ [][NextRace]_vars

\* the running adjust has gone past row id
AdjustPassed(id) == adj_idx > id

KeysAgreeWithColorTags(row) ==
    {t \in Range(row.tags) : IsColorTag(t)} = {ColorTag(k) : k \in DOMAIN row.colors}

\* C30: a row that a re-tag committed after adjust had read the table and
\* before adjust had finished with the row is, once adjust has gone past the
\* row, not stored with the color map that adjust derived from the row it had
\* read (unless that is the map of the re-tag), and the keys of its color map
\* are the colors of its color_ tags.
RetagIsNotLost ==
    \A id \in DOMAIN retag_written :
        (retag_written[id].run = adj_runs /\ AdjustPassed(id)) =>
            /\ id \in DOMAIN adj_written =>
                  \/ products[id].colors = retag_written[id].row.colors
                  \/ products[id].colors # adj_written[id]
            /\ KeysAgreeWithColorTags(products[id])

====
